---- MODULE Spec2Model ----
(***************************************************************************)
(* Model of the Hacker News comparison tool's front end:                   *)
(*   - KnowledgeGraphManager (similarity graph page): graph fetch, delayed *)
(*     renders, threshold slider, topic toggle, position cache, force      *)
(*     layout, cluster view and its summary fetch;                         *)
(*   - its concept hierarchy: request, tree build, path highlight;         *)
(*   - VisualizationManager (cluster scatter page): summary cache.         *)
(* Numbers are fixed point: similarities, thresholds and coordinates are   *)
(* in hundredths (PosScale), forces and velocities in ten-thousandths.     *)
(***************************************************************************)
EXTENDS Integers, Sequences, FiniteSets, TLC

\* JS null / undefined, where an object is expected
Null == [null |-> TRUE]
\* JS null / undefined, where a string is expected
NullStr == "null"

Topics == {"top", "bottom"}

\* The two implementations of KnowledgeGraphManager in the repository.
Impls == {"part_000", "knowledge_graph_js"}

(***************************************************************************)
(* Bounds of the model                                                     *)
(***************************************************************************)
\* user events (clicks, slider moves) in one session of the graph page
MaxUserEvents == 3
\* events (analyses shown, clicks) in one session of the scatter page
MaxVizEvents == 4
\* events handled on the concept hierarchy of the cluster view
MaxConceptEvents == 3
\* node clicks handled while the concept hierarchy is exercised
MaxNodeClicks == 1
MaxSimIterations == 2
MaxAppEvents == 3
MaxSessionEvents == 2

(***************************************************************************)
(* Fixed-point arithmetic                                                  *)
(***************************************************************************)
\* coordinates, similarities and thresholds: hundredths
PosScale == 100
\* forces and velocities: PosScale * PosScale parts of a unit
ForceScale == PosScale * PosScale

Abs(a) == IF a < 0 THEN -a ELSE a

\* JS division of a by b > 0, rounded toward zero
TruncDiv(a, b) == IF a >= 0 THEN a \div b ELSE -((-a) \div b)

RECURSIVE ISqrtBis(_, _, _)
ISqrtBis(n, lo, hi) ==
    IF lo >= hi THEN lo
    ELSE LET mid == (lo + hi + 1) \div 2
         IN  IF mid * mid <= n THEN ISqrtBis(n, mid, hi)
                               ELSE ISqrtBis(n, lo, mid - 1)

\* Math.sqrt on a fixed-point square: the largest r with r*r <= n
ISqrt(n) == ISqrtBis(n, 0, 46340)

(***************************************************************************)
(* applyForceLayout                                                        *)
(***************************************************************************)
iterations == 50
\* ideal spring length (units)
k == 2
\* Coulomb constant 0.1, in hundredths
cHundredths == 10
\* time step 0.05, in hundredths
dtHundredths == 5
\* friction 0.85, in hundredths
frictionHundredths == 85

\* `Math.sqrt(dx * dx + dy * dy) || 0.1`: only a distance of exactly 0 is
\* falsy and replaced by 0.1
FlooredDist(d) == IF d = 0 THEN PosScale \div 10 ELSE d

ForceDist(dx, dy) == FlooredDist(ISqrt(dx * dx + dy * dy))

\* force = (c / (dist * dist)) * 100, in ForceScale parts
RepulsiveForce(dist) ==
    (cHundredths * PosScale * PosScale * ForceScale) \div (dist * dist)

\* force = (dist - k) * 0.01, in ForceScale parts
SpringForce(dist) ==
    ((dist - k * PosScale) * ForceScale) \div (PosScale * 100)

\* (dx / dist) * force
Along(d, dist, force) == TruncDiv(d * force, dist)

\* ((dx / dist) * force, (dy / dist) * force)
ForceVector(dx, dy, dist, force) ==
    [x |-> Along(dx, dist, force), y |-> Along(dy, dist, force)]

RepulsionAt(dx, dy, dist) == ForceVector(dx, dy, dist, RepulsiveForce(dist))

SpringAt(dx, dy, dist) == ForceVector(dx, dy, dist, SpringForce(dist))

\* The repulsive force vector that the pair (n1, n2) adds to n2 and
\* subtracts from n1.
RepulsionOn2(n1, n2) ==
    RepulsionAt(n2.x - n1.x, n2.y - n1.y, ForceDist(n2.x - n1.x, n2.y - n1.y))

\* The spring force vector that the edge (n1, n2) adds to n1 and subtracts
\* from n2.
SpringOn1(n1, n2) ==
    SpringAt(n2.x - n1.x, n2.y - n1.y, ForceDist(n2.x - n1.x, n2.y - n1.y))

\* The sequence s with every element evaluated (TLC keeps [i \in S |-> e]
\* unevaluated otherwise, and evaluates e again at every use).
Evaluated(s) == SubSeq(s, 1, Len(s))

VZero == [x |-> 0, y |-> 0]
VAdd(a, b) == [x |-> a.x + b.x, y |-> a.y + b.y]
VSub(a, b) == [x |-> a.x - b.x, y |-> a.y - b.y]

\* nodes.find(n => n.key === key): the index of the first node with that
\* key, 0 when there is none
FindKey(nodes, key) ==
    IF \E i \in 1..Len(nodes) : nodes[i].key = key
    THEN CHOOSE i \in 1..Len(nodes) :
            /\ nodes[i].key = key
            /\ \A j \in 1..(i - 1) : nodes[j].key # key
    ELSE 0

\* forces[plus] += f; forces[minus] -= f
ApplyPair(forces, plus, minus, f) ==
    Evaluated([i \in DOMAIN forces |->
        IF i = plus /\ i = minus THEN forces[i]
        ELSE IF i = plus THEN VAdd(forces[i], f)
        ELSE IF i = minus THEN VSub(forces[i], f)
        ELSE forces[i]])

\* forces after the double loop over the pairs i < j, from pair (i, j) on
RECURSIVE RepulsivePass(_, _, _, _)
RepulsivePass(nodes, forces, i, j) ==
    IF i > Len(nodes) THEN forces
    ELSE IF j > Len(nodes) THEN RepulsivePass(nodes, forces, i + 1, i + 2)
    ELSE RepulsivePass(nodes,
            ApplyPair(forces, j, i, RepulsionOn2(nodes[i], nodes[j])), i, j + 1)

\* if (n1 && n2) { forces[n1.key] += spring; forces[n2.key] -= spring }
SpringEdge(nodes, forces, i1, i2) ==
    IF i1 = 0 \/ i2 = 0 THEN forces
    ELSE ApplyPair(forces, i1, i2, SpringOn1(nodes[i1], nodes[i2]))

\* forces after edges.forEach, from edge e on
RECURSIVE SpringPass(_, _, _, _)
SpringPass(nodes, edges, forces, e) ==
    IF e > Len(edges) THEN forces
    ELSE SpringPass(nodes, edges,
            SpringEdge(nodes, forces, FindKey(nodes, edges[e].source),
                       FindKey(nodes, edges[e].target)),
            e + 1)

\* node.vx = (node.vx || 0) * friction + fx * dt; node.x += node.vx
Velocity(v, f) ==
    TruncDiv(v * frictionHundredths, 100) + TruncDiv(f * dtHundredths, 100)

Moved(node, vx, vy) ==
    [key |-> node.key, vx |-> vx, vy |-> vy,
     x |-> node.x + TruncDiv(vx, ForceScale \div PosScale),
     y |-> node.y + TruncDiv(vy, ForceScale \div PosScale)]

MoveNode(node, f) == Moved(node, Velocity(node.vx, f.x), Velocity(node.vy, f.y))

MoveAll(nodes, forces) ==
    Evaluated([i \in 1..Len(nodes) |-> MoveNode(nodes[i], forces[i])])

\* one iteration of the simulation loop
ForceIteration(nodes, edges) ==
    MoveAll(nodes,
            SpringPass(nodes, edges,
                RepulsivePass(nodes, Evaluated([i \in 1..Len(nodes) |-> VZero]), 1, 2),
                1))

RECURSIVE ForceLoop(_, _, _)
ForceLoop(nodes, edges, iter) ==
    IF iter >= iterations \/ Len(nodes) = 0 THEN nodes
    ELSE ForceLoop(ForceIteration(nodes, edges), edges, iter + 1)

\* applyForceLayout(graphologyGraph, sigmaGraph): the sigma nodes with their
\* final x and y (velocities start undefined, read as 0)
WithPositions(nodes, done) ==
    Evaluated([i \in 1..Len(nodes) |->
                 [nodes[i] EXCEPT !.x = done[i].x, !.y = done[i].y]])

ApplyForceLayout(nodes, edges) ==
    WithPositions(nodes,
        ForceLoop(Evaluated([i \in 1..Len(nodes) |->
                     [key |-> nodes[i].key, x |-> nodes[i].x, y |-> nodes[i].y,
                      vx |-> 0, vy |-> 0]]),
                  edges, 0))

(***************************************************************************)
(* Strings: number to string, Array.prototype.sort and join                *)
(***************************************************************************)
Range(s) == { s[i] : i \in 1..Len(s) }

DigitChars == <<"0", "1", "2", "3", "4", "5", "6", "7", "8", "9">>

\* the decimal digits of n >= 0, most significant first
RECURSIVE Digits(_)
Digits(n) == IF n < 10 THEN <<n>> ELSE Append(Digits(n \div 10), n % 10)

\* String(n)
RECURSIVE DigitString(_)
DigitString(ds) ==
    IF Len(ds) = 0 THEN ""
    ELSE DigitChars[Head(ds) + 1] \o DigitString(Tail(ds))

Str(n) == DigitString(Digits(n))

\* a sorts before b, or is equal to it, in the order of sort() without a
\* comparator: the order of the elements' strings
RECURSIVE LexLeq(_, _)
LexLeq(a, b) ==
    IF Len(a) = 0 THEN TRUE
    ELSE IF Len(b) = 0 THEN FALSE
    ELSE IF Head(a) # Head(b) THEN Head(a) < Head(b)
    ELSE LexLeq(Tail(a), Tail(b))

RECURSIVE InsertSorted(_, _)
InsertSorted(sorted, id) ==
    IF Len(sorted) = 0 THEN <<id>>
    ELSE IF LexLeq(Digits(id), Digits(Head(sorted))) THEN <<id>> \o sorted
    ELSE <<Head(sorted)>> \o InsertSorted(Tail(sorted), id)

\* [...storyIds].sort()
RECURSIVE Sorted(_)
Sorted(ids) ==
    IF Len(ids) = 0 THEN << >> ELSE InsertSorted(Sorted(Tail(ids)), Head(ids))

\* ids.join(',')
RECURSIVE Join(_)
Join(ids) ==
    IF Len(ids) = 0 THEN ""
    ELSE IF Len(ids) = 1 THEN Str(ids[1])
    ELSE Str(Head(ids)) \o "," \o Join(Tail(ids))

(***************************************************************************)
(* Data: what the Data Service may answer, what Math.random may draw       *)
(***************************************************************************)
GNode(id, size, stories) == [id |-> id, size |-> size, story_ids |-> stories]
GEdge(s, t, similarity) == [source |-> s, target |-> t, similarity |-> similarity]
\* an edge without a similarity property
GEdgeNoSim(s, t) == [source |-> s, target |-> t]

\* graph_data of a cluster-graph response
GraphA == [nodes |-> <<GNode(0, 1, <<1, 2>>), GNode(1, 5, <<3>>)>>,
           edges |-> <<GEdge(0, 1, 81)>>]
GraphB == [nodes |-> <<GNode(1, 3, <<4, 3>>), GNode(2, 3, <<5>>)>>,
           edges |-> <<GEdgeNoSim(1, 2)>>]
\* the clusters of GraphA when the stories are clustered again: cluster 0
\* holds other stories
GraphA2 == [nodes |-> <<GNode(0, 1, <<2, 6>>), GNode(1, 5, <<3, 1>>)>>,
            edges |-> <<GEdge(0, 1, 81)>>]
\* a graph without clusters
GraphNone == [nodes |-> << >>, edges |-> << >>]
ServiceGraphs == {GraphA, GraphB, GraphA2, GraphNone}

\* the graph_data the Data Service answers for a search id
ServiceGraphsFor(searchId) ==
    IF searchId = "s1" THEN {GraphA} ELSE {GraphB, GraphNone}

\* the same, when the Data Service clusters anew at every request
ReclusteredGraphsFor(searchId) ==
    IF searchId = "s1" THEN {GraphA, GraphA2} ELSE {GraphB}

\* a text shown in the page: what kind of text, and what it is about
PageText(kind, of) == [kind |-> kind, of |-> of]
NoText == PageText("empty", << >>)

\* the Summary Service's answer for the stories storyIds of a cluster
SummaryResponse(searchId, clusterId, storyIds) ==
    [title |-> PageText("title", <<searchId, clusterId, Range(storyIds)>>),
     summary |-> PageText("summary", <<searchId, clusterId, Range(storyIds)>>)]

\* the result of analyzeComplete, as createClusterVisualization gets it
VizData(labels, ids) == [cluster_labels |-> labels, tweet_ids |-> ids]
DataP == VizData(<<0, 0, 1>>, <<9, 10, 3>>)
\* the stories of DataP in another order
DataQ == VizData(<<0, 0, 1>>, <<10, 9, 3>>)
\* the stories of DataP clustered otherwise
DataR == VizData(<<0, 1, 1>>, <<9, 10, 3>>)
AnalysisData == {DataP, DataQ, DataR}

\* searchData[topic].search_id of the application
TopicSearchId(topic) == IF topic = "top" THEN "s1" ELSE "s2"

\* (Math.random() * 100, Math.random() * 100) for the nodes of a graph, by
\* index: the sequences of draws the model tries
SeedDraws ==
    { << [x |-> 1000, y |-> 2000], [x |-> 6000, y |-> 5000], [x |-> 4000, y |-> 500] >>,
      << [x |-> 3000, y |-> 7000], [x |-> 2500, y |-> 1000], [x |-> 9000, y |-> 9000] >> }

\* parseInt(slider value) / 100
ThresholdValues == {50, 90}

\* slider values and edge similarities (hundredths) for the renders of stored
\* graphs; an edge may also come without a similarity
SliderValues == {25, 50, 90}
Similarities == {0, 30, 50, 81}

\* search ids a session may hold in sessionStorage.currentSearchIds
StoredSearchIds ==
    { Null, [top |-> "s1", bottom |-> "s2"], [top |-> "s1", bottom |-> NullStr] }

Tag(g, gen) == [gen |-> gen, nodes |-> g.nodes, edges |-> g.edges]

\* edges source -> target as the Data Service may have sent them
EdgesBetween(source, target) ==
    {GEdgeNoSim(source, target)} \cup
    { GEdge(source, target, similarity) : similarity \in Similarities }

\* graph data an earlier session may have left in localStorage
\* with three clusters whose story counts differ, are all equal, or have the
\* smallest in the middle
StoredGraphs ==
    { Tag([nodes |-> <<GNode(0, sz[1], <<1, 2>>), GNode(1, sz[2], <<3>>),
                       GNode(2, sz[3], <<4>>)>>,
           edges |-> <<e1, e2>>], 0) :
        e1 \in EdgesBetween(0, 1), e2 \in EdgesBetween(1, 2),
        sz \in { <<1, 5, 3>>, <<2, 2, 2>>, <<4, 1, 2>> } }

(***************************************************************************)
(* State of KnowledgeGraphManager                                          *)
(***************************************************************************)
VARIABLES
    impl,                \* which of the two implementations runs
    clustersGenerated,   \* sessionStorage.clustersGenerated = 'true'
    localStorage,        \* search id -> cached graph data
    currentTopic, graphData, searchIds, currentGraph, summaryCache,
    currentThreshold, currentGraphData, calculatedPositions, currentClusterId,
    dom,                 \* display of #graph-canvas and #loading-graph
    clusterView,         \* #cluster-view: shown, title, summary text; the topic
                         \* that was current when its cluster was clicked
    fetches,             \* cluster-graph requests awaiting their response
    numFetches,
    userEvents,          \* user events handled so far
    timers,              \* pending setTimeout callbacks, oldest first
    summaryReqs,         \* getSummary calls awaiting their response
    numSummaryCalls,
    concept,             \* #concept-graph-container, its canvas, isPathHighlighted,
                         \* getConceptGraph calls awaiting their response
    hist,                \* per generated graph: its first render, its layouts
    lastOp,              \* the handler that ran last
    viz,                 \* the VisualizationManager instance
    vizPage,             \* its page: #cluster-details, pending getSummary calls
    sim,                 \* a running applyForceLayout: nodes, forces, loop position
    app                  \* the HackerNewsAnalysisApp instance and its page

pageVars == <<impl, clustersGenerated, localStorage, currentTopic, graphData,
              searchIds, currentGraph, summaryCache, currentThreshold,
              currentGraphData, calculatedPositions, currentClusterId, dom,
              clusterView, fetches, numFetches, userEvents, timers, summaryReqs,
              numSummaryCalls, concept, hist, lastOp>>
kgVars == <<pageVars, sim, app>>
vizVars == <<viz, vizPage>>
vars == <<kgVars, vizVars>>

Gens == 0..MaxUserEvents

NoHist == [firstPos |-> Null, firstFresh |-> "none", layouts |-> 0]

(***************************************************************************)
(* renderGraph                                                             *)
(***************************************************************************)
minSize == 5
maxSize == 30

RECURSIVE SeqMin(_, _)
SeqMin(s, i) ==
    IF i = Len(s) THEN s[i]
    ELSE LET m == SeqMin(s, i + 1) IN IF s[i] < m THEN s[i] ELSE m

RECURSIVE SeqMax(_, _)
SeqMax(s, i) ==
    IF i = Len(s) THEN s[i]
    ELSE LET m == SeqMax(s, i + 1) IN IF s[i] > m THEN s[i] ELSE m

\* the story count scaled against the largest count alone
NodeSizeByMax(size, minNodeSize, maxNodeSize) ==
    minSize * PosScale + (size * (maxSize - minSize) * PosScale) \div maxNodeSize

\* minSize + (size - min) / (max - min || 1) * (maxSize - minSize), hundredths
NodeSize(size, minNodeSize, maxNodeSize) ==
    LET denom == IF maxNodeSize - minNodeSize = 0 THEN 1
                 ELSE maxNodeSize - minNodeSize
    IN  minSize * PosScale
          + ((size - minNodeSize) * (maxSize - minSize) * PosScale) \div denom

\* calculatedPositions && calculatedPositions[node.id]
CachedPos(cp, id) == IF cp # Null /\ id \in DOMAIN cp THEN cp[id] ELSE Null

\* the nodes of gd (by index) that renderGraph places at random
Uncached(cp, gd) ==
    { i \in 1..Len(gd.nodes) : CachedPos(cp, gd.nodes[i].id) = Null }

\* sigmaGraph.nodes
SigmaNode(node, pos, minNodeSize, maxNodeSize) ==
    [key |-> node.id, originalId |-> node.id,
     size |-> NodeSize(node.size, minNodeSize, maxNodeSize),
     storiesCount |-> node.size, storyIds |-> node.story_ids,
     x |-> pos.x, y |-> pos.y]

SigmaNodesSized(gd, cp, rnd, minNodeSize, maxNodeSize) ==
    Evaluated([i \in 1..Len(gd.nodes) |->
        SigmaNode(gd.nodes[i],
                  IF CachedPos(cp, gd.nodes[i].id) # Null
                  THEN CachedPos(cp, gd.nodes[i].id) ELSE rnd[i],
                  minNodeSize, maxNodeSize)])

NodeSizes(gd) == Evaluated([i \in 1..Len(gd.nodes) |-> gd.nodes[i].size])

SigmaNodes(gd, cp, rnd) ==
    IF Len(gd.nodes) = 0 THEN << >>
    ELSE SigmaNodesSized(gd, cp, rnd, SeqMin(NodeSizes(gd), 1),
                         SeqMax(NodeSizes(gd), 1))

\* const similarity = edge.similarity || 0.5
EffectiveSimilarity(edge) ==
    IF "similarity" \notin DOMAIN edge \/ edge.similarity = 0 THEN 50
    ELSE edge.similarity

\* if (similarity >= currentThreshold)
EdgeIncluded(similarity, threshold) == similarity >= threshold

\* the width (size) of an included edge, in tenths
EdgeWidth(similarity) ==
    IF similarity > 80 THEN 35
    ELSE IF similarity >= 50 THEN 25
    ELSE 15

\* sigmaGraph.edges
SigmaEdge(edge, index, similarity) ==
    [key |-> <<edge.source, edge.target>>, source |-> edge.source,
     target |-> edge.target, similarity |-> similarity,
     size |-> EdgeWidth(similarity), index |-> index]

SigmaEdges(gd, threshold) ==
    SelectSeq([i \in 1..Len(gd.edges) |->
                  SigmaEdge(gd.edges[i], i, EffectiveSimilarity(gd.edges[i]))],
              LAMBDA e : EdgeIncluded(e.similarity, threshold))

\* a renderGraph that lays out at every render
NeedsLayoutAlways(cp) == TRUE

\* if (!calculatedPositions)
NeedsLayout(cp) == cp = Null

\* calculatedPositions[node.originalId] = {x, y} for every sigma node
StorePositions(nodes) ==
    [id \in { nodes[i].originalId : i \in 1..Len(nodes) } |->
        LET last == CHOOSE i \in 1..Len(nodes) :
                       /\ nodes[i].originalId = id
                       /\ \A j \in (i + 1)..Len(nodes) : nodes[j].originalId # id
        IN  [x |-> nodes[last].x, y |-> nodes[last].y]]

PositionsOf(nodes) == [i \in 1..Len(nodes) |-> [x |-> nodes[i].x, y |-> nodes[i].y]]

\* the state after renderGraph(gd): se are the sigma edges, placed the sigma
\* nodes where the renderer shows them, layout whether applyForceLayout ran
Rendered(gd, se, placed, layout, op) ==
    LET h == hist[gd.gen]
    IN  /\ currentGraphData' = gd
        /\ calculatedPositions' =
              IF layout THEN StorePositions(placed) ELSE calculatedPositions
        /\ currentGraph' = [gen |-> gd.gen, nodes |-> placed, edges |-> se]
        /\ hist' = [hist EXCEPT ![gd.gen] =
              [firstPos |-> IF h.firstPos = Null THEN PositionsOf(placed)
                            ELSE h.firstPos,
               firstFresh |-> IF h.firstPos # Null THEN h.firstFresh
                              ELSE IF layout THEN "layout" ELSE "cached",
               layouts |-> h.layouts + (IF layout THEN 1 ELSE 0)]]
        /\ lastOp' = [op |-> op, rendered |-> TRUE, layout |-> layout]

\* the inputs applyForceLayout gets when every node is placed at random
LayoutInputs ==
    { <<SigmaNodes(g, Null, d), SigmaEdges(g, th)>> :
        g \in ServiceGraphs, d \in SeedDraws, th \in ThresholdValues \cup {50} }
    \cup
    { <<SigmaNodes(g, Null, d), SigmaEdges(g, th)>> :
        g \in StoredGraphs, d \in SeedDraws, th \in SliderValues }

\* ApplyForceLayout on LayoutInputs, computed once
LayoutTable == [in \in LayoutInputs |-> ApplyForceLayout(in[1], in[2])]

LayoutOf(sn, se) ==
    IF <<sn, se>> \in LayoutInputs THEN LayoutTable[<<sn, se>>]
    ELSE ApplyForceLayout(sn, se)

Placed(sn, se, layout) == IF layout THEN LayoutOf(sn, se) ELSE sn

\* renderGraph(gd) run by handler op while currentThreshold is threshold; rnd
\* holds the Math.random draws
RenderGraph(gd, threshold, rnd, op) ==
    Rendered(gd, SigmaEdges(gd, threshold),
             Placed(SigmaNodes(gd, calculatedPositions, rnd),
                    SigmaEdges(gd, threshold),
                    NeedsLayout(calculatedPositions)),
             NeedsLayout(calculatedPositions), op)

\* the draws of one renderGraph(gd): none when every node has a cached position
Draws(gd) ==
    IF Uncached(calculatedPositions, gd) = {} THEN { << >> } ELSE SeedDraws

NoRender(op) == lastOp' = [op |-> op, rendered |-> FALSE, layout |-> FALSE]

(***************************************************************************)
(* Concept hierarchy: what getConceptGraph may answer, renderConceptTree   *)
(***************************************************************************)
\* a node of the flat list: {id, layer, article_url?, children[]}
CNode(id, layer, article_url, children) ==
    [id |-> id, layer |-> layer, article_url |-> article_url, children |-> children]

\* {success, nodes, root_id}
ConceptResponse(nodes, root_id) ==
    [success |-> TRUE, nodes |-> nodes, root_id |-> root_id]

\* {success: false, message}
RefusedResponse == [success |-> FALSE, nodes |-> << >>, root_id |-> NullStr]

\* What the service may answer with success:
\*   a tree r -> a -> c, r -> b (c an article with a URL, b one without);
\*   a tree whose children are listed before their parents;
\*   a root_id that names no node of the list;
\*   a node r that declares the child x, which is no node of the list;
\*   a node b that is the child of no node;
\*   an empty list.
ConceptResponses ==
    { ConceptResponse(<<CNode("r", 2, FALSE, <<"a", "b">>), CNode("a", 1, FALSE, <<"c">>),
                        CNode("b", 0, FALSE, << >>), CNode("c", 0, TRUE, << >>)>>, "r"),
      ConceptResponse(<<CNode("c", 0, TRUE, << >>), CNode("a", 1, FALSE, <<"c">>),
                        CNode("r", 2, FALSE, <<"a">>)>>, "r"),
      ConceptResponse(<<CNode("a", 1, FALSE, <<"c">>), CNode("c", 0, TRUE, << >>)>>, "r"),
      ConceptResponse(<<CNode("r", 1, FALSE, <<"c", "x">>), CNode("c", 0, TRUE, << >>)>>, "r"),
      ConceptResponse(<<CNode("r", 1, FALSE, <<"c">>), CNode("c", 0, TRUE, << >>),
                        CNode("b", 0, TRUE, << >>)>>, "r"),
      ConceptResponse(<< >>, "r") }

\* the content of #concept-graph-canvas: nothing, a message, or the svg with
\* its .concept-node and .concept-link elements
CanvasMessage(kind) == [kind |-> kind, nodes |-> << >>, links |-> << >>]
EmptyCanvas == CanvasMessage("empty")

ConceptIds(nodes) == { nodes[i].id : i \in 1..Len(nodes) }

\* the node that nodeMap holds under id: the last one of the list with that id
ListedNode(nodes, id) ==
    nodes[CHOOSE i \in 1..Len(nodes) :
            /\ nodes[i].id = id
            /\ \A j \in (i + 1)..Len(nodes) : nodes[j].id # id]

\* node.children.map(childId => nodeMap[childId]).filter(Boolean), as ids
LinkedChildren(nodes, children) ==
    SelectSeq(children, LAMBDA childId : childId \in ConceptIds(nodes))

\* nodeMap after the second pass: each node with the children that resolve
NodeMap(nodes) ==
    [id \in ConceptIds(nodes) |->
        [ListedNode(nodes, id) EXCEPT
            !.children = LinkedChildren(nodes, ListedNode(nodes, id).children)]]

\* nodeMap[rootId] of a root that is no node, in place of undefined
RootNodeOrFirst(nodeMap, rootId) ==
    IF rootId \in DOMAIN nodeMap THEN nodeMap[rootId]
    ELSE nodeMap[CHOOSE id \in DOMAIN nodeMap : TRUE]

\* nodeMap[rootId]
RootNode(nodeMap, rootId) ==
    IF rootId \in DOMAIN nodeMap THEN nodeMap[rootId] ELSE Null

\* a g.concept-node of the svg: its datum (id, parent, layer, article url),
\* its data-node-id attribute and its classes
ConceptElement(node, parent) ==
    [id |-> node.id, dataNodeId |-> node.id, parent |-> parent,
     layer |-> node.layer, article_url |-> node.article_url,
     highlighted |-> FALSE, dimmed |-> FALSE]

ChildElements(nodeMap, children, parent) ==
    Evaluated([i \in 1..Len(children) |-> ConceptElement(nodeMap[children[i]], parent)])

\* d3.hierarchy(root).descendants(): breadth first, parent as an index
RECURSIVE Descendants(_, _, _)
Descendants(nodeMap, found, next) ==
    IF next > Len(found) THEN found
    ELSE Descendants(nodeMap,
            found \o ChildElements(nodeMap, nodeMap[found[next].id].children, next),
            next + 1)

\* treeData.links(): one path.concept-link per node below the root
ConceptLinks(elements) ==
    Evaluated([i \in 1..(Len(elements) - 1) |->
        [sourceId |-> elements[elements[i + 1].parent].dataNodeId,
         targetId |-> elements[i + 1].dataNodeId,
         highlighted |-> FALSE, dimmed |-> FALSE]])

\* renderConceptTree(nodes, rootId): the canvas it leaves
RenderConceptTree(nodes, rootId) ==
    IF Len(nodes) = 0 THEN CanvasMessage("noData")
    ELSE IF RootNode(NodeMap(nodes), rootId) = Null THEN CanvasMessage("invalidRoot")
    ELSE LET elements == Descendants(NodeMap(nodes),
                <<ConceptElement(RootNode(NodeMap(nodes), rootId), 0)>>, 1)
         IN  [kind |-> "tree", nodes |-> elements, links |-> ConceptLinks(elements)]

Unclassed(elements) ==
    Evaluated([i \in 1..Len(elements) |->
        [elements[i] EXCEPT !.highlighted = FALSE, !.dimmed = FALSE]])

\* classes removed from the nodes only
ClearPathHighlightNodesOnly(canvas) ==
    [canvas EXCEPT !.nodes = Unclassed(canvas.nodes)]

\* clearPathHighlight: the classes highlighted and dimmed removed
ClearPathHighlight(canvas) ==
    [canvas EXCEPT !.nodes = Unclassed(canvas.nodes),
                   !.links = Unclassed(canvas.links)]

\* the path without its last node
RECURSIVE PathNodesBelowRoot(_, _)
PathNodesBelowRoot(elements, n) ==
    IF elements[n].parent = 0 THEN << >>
    ELSE <<elements[n].id>> \o PathNodesBelowRoot(elements, elements[n].parent)

\* pathNodes: while (current) { push(current.data.id); current = current.parent }
RECURSIVE PathNodes(_, _)
PathNodes(elements, n) ==
    IF n = 0 THEN << >>
    ELSE <<elements[n].id>> \o PathNodes(elements, elements[n].parent)

\* classed('highlighted', on).classed('dimmed', !on)
Classed(element, on) == [element EXCEPT !.highlighted = on, !.dimmed = ~on]

\* highlightPathToRoot(clickedNode, treeData, svgGroup), n the clicked node
HighlightPathToRoot(canvas, n) ==
    LET cleared == ClearPathHighlight(canvas)
        pathNodeSet == Range(PathNodes(cleared.nodes, n))
    IN  [cleared EXCEPT
            !.nodes = Evaluated([i \in 1..Len(cleared.nodes) |->
                Classed(cleared.nodes[i], cleared.nodes[i].dataNodeId \in pathNodeSet)]),
            !.links = Evaluated([i \in 1..Len(cleared.links) |->
                Classed(cleared.links[i],
                        /\ cleared.links[i].sourceId \in pathNodeSet
                        /\ cleared.links[i].targetId \in pathNodeSet)])]

\* the cluster view's concept area before any request
ConceptInit ==
    [container |-> "none", loading |-> "none", canvas |-> EmptyCanvas,
     isPathHighlighted |-> FALSE, pending |-> {}, calls |-> 0, events |-> 0,
     opened |-> {},
     lastOp |-> [op |-> "init", node |-> 0, response |-> RefusedResponse]]

(***************************************************************************)
(* init / checkInitialState                                                *)
(***************************************************************************)
NoIds == [top |-> NullStr, bottom |-> NullStr]
NoGraphs == [top |-> Null, bottom |-> Null]

\* graphData after checkInitialState: part_000 loads graphData_<search id>
\* from localStorage, knowledge-graph.js does not
LoadedGraphData(im, ids, storage) ==
    IF im = "part_000"
    THEN [t \in Topics |-> IF ids[t] # NullStr THEN storage[ids[t]] ELSE Null]
    ELSE NoGraphs

\* search ids taken from sessionStorage whatever the flag says
StoredSearchIdsUngated(generated, stored) ==
    IF stored # Null THEN stored ELSE NoIds

\* searchIds after checkInitialState: the ids of sessionStorage.currentSearchIds
\* when sessionStorage.clustersGenerated is 'true' and ids are stored
LoadedSearchIds(generated, stored) ==
    IF generated /\ stored # Null THEN stored ELSE NoIds

\* The state after init(), for a localStorage that holds graph data under
\* graphData_s1 (one of cached) or nothing
InitWith(cached) ==
    /\ impl \in Impls
    /\ clustersGenerated \in BOOLEAN
    /\ localStorage \in { [s \in {"s1", "s2"} |-> IF s = "s1" THEN c ELSE Null] :
                            c \in cached \cup {Null} }
    /\ \E stored \in StoredSearchIds :
          searchIds = LoadedSearchIds(clustersGenerated, stored)
    /\ currentTopic = "top"
    /\ graphData = LoadedGraphData(impl, searchIds, localStorage)
    /\ currentGraph = Null
    /\ summaryCache = << >>
    /\ currentThreshold = 50
    /\ currentGraphData = Null
    /\ calculatedPositions = Null
    /\ currentClusterId = << >>
    /\ dom = [canvas |-> IF graphData[currentTopic] # Null THEN "block" ELSE "none",
              loading |-> "none", loadingContent |-> "spinner"]
    /\ clusterView = [shown |-> FALSE, topic |-> NullStr, title |-> NoText,
                     summary |-> NoText]
    /\ fetches = {}
    /\ numFetches = 0
    /\ userEvents = 0
    /\ timers = IF graphData[currentTopic] # Null
                THEN << [delay |-> 100, kind |-> "auto", topic |-> NullStr, graph |-> Null] >>
                ELSE << >>
    /\ summaryReqs = {}
    /\ numSummaryCalls = 0
    /\ concept = ConceptInit
    /\ hist = [g \in Gens |-> NoHist]
    /\ lastOp = [op |-> "init", rendered |-> FALSE, layout |-> FALSE]

\* the two copies of HackerNewsAnalysisApp
AppImpls == {"app.js", "part_000"}

\* new HackerNewsAnalysisApp() followed by updateTopicDisplay(), as the
\* DOMContentLoaded handler runs them: no search data, the generate button
\* disabled
AppConstructed(appImpl) ==
    [impl |-> appImpl,
     currentPage |-> "main",
     searchData |-> [t \in Topics |-> Null],
     searches |-> {},
     compares |-> << >>,
     compareBtn |-> [disabled |-> FALSE, hidden |-> FALSE],
     generateBtn |-> [disabled |-> TRUE, hidden |-> FALSE],
     loading |-> FALSE,
     vizSection |-> FALSE,
     generates |-> << >>]

\* new VisualizationManager(), no cluster details shown
VizConstructed ==
    /\ viz = [visualizations |-> [t \in Topics |-> Null],
              currentTopic |-> "top",
              summaryCache |-> << >>,
              highlightedCluster |-> [t \in Topics |-> << >>]]
    /\ vizPage = [details |-> [shown |-> FALSE, title |-> NoText, summary |-> NoText],
                  pending |-> {}, calls |-> 0, events |-> 0,
                  requested |-> {}, answered |-> {},
                  lastOp |-> [op |-> "init", triple |-> << >>, storyIds |-> << >>]]

Init ==
    /\ InitWith({Tag(GraphA, 0)}) /\ VizConstructed /\ sim = Null
    /\ app = AppConstructed("part_000")

clusterVars == <<summaryCache, currentClusterId, clusterView, summaryReqs,
                 numSummaryCalls>>
\* what no handler of the page writes
sessionVars == <<impl, clustersGenerated, searchIds, sim, app>>

\* a user event is handled
UserEvent == userEvents < MaxUserEvents /\ userEvents' = userEvents + 1
renderVars == <<currentGraph, currentGraphData, calculatedPositions, hist>>

(***************************************************************************)
(* threshold slider 'input' handler                                        *)
(***************************************************************************)
ThresholdInput(value) ==
    /\ UserEvent
    /\ value # currentThreshold
    /\ currentThreshold' = value
    /\ IF currentGraphData # Null
       THEN \E rnd \in Draws(currentGraphData) :
               RenderGraph(currentGraphData, value, rnd, "threshold")
       ELSE NoRender("threshold") /\ UNCHANGED renderVars
    /\ UNCHANGED <<sessionVars, clusterVars, localStorage, currentTopic,
                   graphData, dom, fetches, numFetches, timers, concept>>

(***************************************************************************)
(* setupTopicToggle: click on a .topic-btn                                 *)
(***************************************************************************)
TopicToggle(topic) ==
    /\ UserEvent
    /\ currentTopic' = topic
    /\ IF impl = "part_000"
       THEN /\ IF graphData[topic] # Null
               THEN /\ dom' = [dom EXCEPT !.canvas = "block", !.loading = "none"]
                    /\ timers' = Append(timers,
                          [delay |-> 50, kind |-> "toggle", topic |-> topic,
                           graph |-> Null])
               ELSE /\ dom' = [dom EXCEPT !.canvas = "none", !.loading = "none"]
                    /\ UNCHANGED timers
            /\ NoRender("toggle")
            /\ UNCHANGED renderVars
       ELSE /\ IF graphData[topic] # Null
               THEN \E rnd \in Draws(graphData[topic]) :
                       RenderGraph(graphData[topic], currentThreshold, rnd, "toggle")
               ELSE NoRender("toggle") /\ UNCHANGED renderVars
            /\ UNCHANGED <<dom, timers>>
    /\ UNCHANGED <<sessionVars, clusterVars, localStorage, graphData,
                   currentThreshold, fetches, numFetches, concept>>

(***************************************************************************)
(* generateCurrentGraph / generateGraph                                    *)
(***************************************************************************)
\* click on #generate-graph-btn, up to the await of fetch
GenerateClick ==
    /\ UserEvent
    /\ IF searchIds[currentTopic] = NullStr
       THEN \* alert('No search data available ...') and return
            /\ NoRender("alert")
            /\ UNCHANGED <<numFetches, fetches, dom>>
       ELSE /\ numFetches' = numFetches + 1
            /\ fetches' = fetches \cup
                  { [id |-> numFetches + 1, topic |-> currentTopic,
                     searchId |-> searchIds[currentTopic]] }
            /\ dom' = [dom EXCEPT !.loading = "flex", !.canvas = "none"]
            /\ NoRender("generate")
    /\ UNCHANGED <<sessionVars, clusterVars, renderVars, localStorage,
                   currentTopic, graphData, currentThreshold, timers, concept>>

\* the response is ok and result.success: generateGraph resumes
FetchSucceed(f, g) ==
    /\ f \in fetches
    /\ fetches' = fetches \ {f}
    /\ graphData' = [graphData EXCEPT ![f.topic] = Tag(g, f.id)]
    /\ localStorage' = IF impl = "part_000"
                       THEN [localStorage EXCEPT ![f.searchId] = Tag(g, f.id)]
                       ELSE localStorage
    /\ calculatedPositions' = Null
    /\ dom' = [dom EXCEPT !.loading = "none", !.canvas = "block"]
    /\ timers' = Append(timers,
          [delay |-> 100, kind |-> "generate", topic |-> f.topic,
           graph |-> Tag(g, f.id)])
    /\ NoRender("fetched")
    /\ UNCHANGED <<sessionVars, clusterVars, currentGraph, currentGraphData,
                   hist, currentTopic, currentThreshold, numFetches, userEvents,
                   concept>>

\* network error, !response.ok or !result.success: the catch block
FetchFail(f) ==
    /\ f \in fetches
    /\ fetches' = fetches \ {f}
    /\ dom' = [dom EXCEPT !.loadingContent = "error"]
    /\ NoRender("fetchFailed")
    /\ UNCHANGED <<sessionVars, clusterVars, renderVars, localStorage,
                   currentTopic, graphData, currentThreshold, numFetches,
                   userEvents, timers, concept>>

(***************************************************************************)
(* setTimeout callbacks                                                    *)
(***************************************************************************)
\* A timer set later fires before one set earlier only if its delay is shorter.
MayFire(i) ==
    /\ i \in 1..Len(timers)
    /\ \A j \in 1..(i - 1) : timers[j].delay > timers[i].delay

RemoveAt(s, i) == [j \in 1..(Len(s) - 1) |-> IF j < i THEN s[j] ELSE s[j + 1]]

\* the graph the callback hands to renderGraph
TimerGraph(tm) ==
    IF tm.kind = "generate" THEN tm.graph
    ELSE IF tm.kind = "toggle" THEN graphData[tm.topic]
    ELSE graphData[currentTopic]

TimerFire(i) ==
    /\ MayFire(i)
    /\ timers' = RemoveAt(timers, i)
    /\ LET gd == TimerGraph(timers[i])
       IN  IF gd # Null
           THEN \E rnd \in Draws(gd) : RenderGraph(gd, currentThreshold, rnd, timers[i].kind)
           ELSE NoRender(timers[i].kind) /\ UNCHANGED renderVars
    /\ UNCHANGED <<sessionVars, clusterVars, localStorage, currentTopic,
                   graphData, currentThreshold, dom, fetches, numFetches,
                   userEvents, concept>>

(***************************************************************************)
(* showClusterDetails: click on a node of the rendered graph               *)
(***************************************************************************)
\* `${currentTopic}-${nodeAttrs.originalId}`
KGCacheKey(topic, originalId) == topic \o "-" \o Str(originalId)

\* cache[key] = value
Cached(cache, key, value) ==
    [c \in DOMAIN cache \cup {key} |-> IF c = key THEN value ELSE cache[c]]

\* the end of showClusterDetails: the concept graph container hidden, the
\* canvas emptied
HideConceptGraph(c) == [c EXCEPT !.container = "none", !.canvas = EmptyCanvas]

\* showClusterDetails of part_000, up to the await of api.getSummary, or to
\* its end when nothing is awaited
ShowClusterDetails(node, cacheKey) ==
    /\ currentClusterId' = <<node.originalId>>
    /\ IF cacheKey \in DOMAIN summaryCache
       THEN /\ clusterView' = [shown |-> TRUE, topic |-> currentTopic,
                                title |-> summaryCache[cacheKey].title,
                                summary |-> summaryCache[cacheKey].summary]
            /\ concept' = HideConceptGraph(concept)
            /\ UNCHANGED <<summaryReqs, numSummaryCalls>>
       ELSE IF searchIds[currentTopic] = NullStr
       THEN /\ clusterView' = [shown |-> TRUE, topic |-> currentTopic,
                                title |-> PageText("label", <<node.originalId>>),
                                summary |-> PageText("failed", << >>)]
            /\ concept' = HideConceptGraph(concept)
            /\ UNCHANGED <<summaryReqs, numSummaryCalls>>
       ELSE /\ clusterView' = [shown |-> TRUE, topic |-> currentTopic,
                                title |-> PageText("label", <<node.originalId>>),
                                summary |-> PageText("generating", << >>)]
            /\ numSummaryCalls' = numSummaryCalls + 1
            /\ summaryReqs' = summaryReqs \cup
                  { [id |-> numSummaryCalls + 1, cacheKey |-> cacheKey,
                     searchId |-> searchIds[currentTopic],
                     clusterId |-> node.originalId,
                     storyIds |-> node.storyIds] }
            /\ UNCHANGED concept

\* showClusterDetails of knowledge-graph.js: no summary is fetched
ShowClusterDetailsPanel(node, cacheKey) ==
    /\ clusterView' = [shown |-> TRUE, topic |-> currentTopic,
                        title |-> PageText("label", <<node.originalId>>),
                        summary |-> IF cacheKey \in DOMAIN summaryCache
                                    THEN summaryCache[cacheKey]
                                    ELSE PageText("unavailable", << >>)]
    /\ UNCHANGED <<currentClusterId, summaryReqs, numSummaryCalls, concept>>

\* clickNode on the i-th node of the rendered graph
NodeClick(i) ==
    /\ UserEvent
    /\ currentGraph # Null
    /\ dom.canvas = "block"
    /\ i \in 1..Len(currentGraph.nodes)
    /\ IF impl = "part_000"
       THEN ShowClusterDetails(currentGraph.nodes[i],
                KGCacheKey(currentTopic, currentGraph.nodes[i].originalId))
       ELSE ShowClusterDetailsPanel(currentGraph.nodes[i],
                KGCacheKey(currentTopic, currentGraph.nodes[i].originalId))
    /\ NoRender("click")
    /\ UNCHANGED <<sessionVars, renderVars, summaryCache, localStorage,
                   currentTopic, graphData, currentThreshold, dom, fetches,
                   numFetches, timers>>

\* api.getSummary resolves: showClusterDetails resumes
SummarySucceed(r) ==
    /\ r \in summaryReqs
    /\ summaryReqs' = summaryReqs \ {r}
    /\ clusterView' =
          [clusterView EXCEPT
              !.title = SummaryResponse(r.searchId, r.clusterId, r.storyIds).title,
              !.summary = SummaryResponse(r.searchId, r.clusterId, r.storyIds).summary]
    /\ summaryCache' = Cached(summaryCache, r.cacheKey,
                              SummaryResponse(r.searchId, r.clusterId, r.storyIds))
    /\ concept' = HideConceptGraph(concept)
    /\ NoRender("summary")
    /\ UNCHANGED <<sessionVars, renderVars, currentClusterId, numSummaryCalls,
                   localStorage, currentTopic, graphData, currentThreshold, dom,
                   fetches, numFetches, userEvents, timers>>

\* a catch block that keeps the failure text as the summary of the key
SummaryFailCached(r) ==
    /\ r \in summaryReqs
    /\ summaryReqs' = summaryReqs \ {r}
    /\ clusterView' = [clusterView EXCEPT !.summary = PageText("failed", << >>)]
    /\ summaryCache' = Cached(summaryCache, r.cacheKey,
                              [title |-> PageText("label", <<r.clusterId>>),
                               summary |-> PageText("failed", << >>)])
    /\ concept' = HideConceptGraph(concept)
    /\ NoRender("summaryFailed")
    /\ UNCHANGED <<sessionVars, renderVars, currentClusterId,
                   numSummaryCalls, localStorage, currentTopic, graphData,
                   currentThreshold, dom, fetches, numFetches, userEvents, timers>>

\* api.getSummary rejects: the catch block
SummaryFail(r) ==
    /\ r \in summaryReqs
    /\ summaryReqs' = summaryReqs \ {r}
    /\ clusterView' = [clusterView EXCEPT !.summary = PageText("failed", << >>)]
    /\ concept' = HideConceptGraph(concept)
    /\ NoRender("summaryFailed")
    /\ UNCHANGED <<sessionVars, renderVars, summaryCache, currentClusterId,
                   numSummaryCalls, localStorage, currentTopic, graphData,
                   currentThreshold, dom, fetches, numFetches, userEvents, timers>>

(***************************************************************************)
(* Cluster view: close, concept hierarchy request, clicks on the tree      *)
(***************************************************************************)
\* what the handlers of the cluster view leave alone on the graph page
graphPageVars == <<sessionVars, renderVars, localStorage, currentTopic, graphData,
                   currentThreshold, dom, fetches, numFetches, userEvents, timers>>

\* the concept area after an event of the cluster view
ConceptEvent(op, node, response) ==
    [concept EXCEPT !.events = concept.events + 1,
                    !.lastOp = [op |-> op, node |-> node, response |-> response]]

\* click on #close-cluster-view: hideClusterView
HideClusterView ==
    /\ impl = "part_000"
    /\ concept.events < MaxConceptEvents
    /\ clusterView.shown
    /\ clusterView' = [clusterView EXCEPT !.shown = FALSE]
    /\ currentClusterId' = << >>
    /\ concept' = ConceptEvent("close", 0, RefusedResponse)
    /\ NoRender("close")
    /\ UNCHANGED <<graphPageVars, summaryCache, summaryReqs, numSummaryCalls>>

\* click on #generate-concept-graph: generateConceptGraph up to the await of
\* api.getConceptGraph; it returns at once without a cluster id (0 counts as
\* none) or a search id
GenerateConceptGraph ==
    /\ impl = "part_000"
    /\ concept.events < MaxConceptEvents
    /\ IF \/ currentClusterId = << >>
          \/ currentClusterId[1] = 0
          \/ searchIds[currentTopic] = NullStr
       THEN \* console.error(...) and return
            /\ concept' = ConceptEvent("refused", 0, RefusedResponse)
            /\ NoRender("conceptRefused")
       ELSE /\ concept' = [ConceptEvent("generate", 0, RefusedResponse) EXCEPT
                              !.container = "block", !.loading = "flex",
                              !.canvas = EmptyCanvas,
                              !.calls = concept.calls + 1,
                              !.pending = concept.pending \cup
                                  { [id |-> concept.calls + 1,
                                     searchId |-> searchIds[currentTopic],
                                     clusterId |-> currentClusterId[1]] }]
            /\ NoRender("generateConcept")
    /\ UNCHANGED <<graphPageVars, clusterVars>>

\* api.getConceptGraph resolves with success: the tree is rendered
ConceptSucceed(r, response) ==
    /\ r \in concept.pending
    /\ response.success
    /\ concept' = [concept EXCEPT
                      !.pending = concept.pending \ {r},
                      !.loading = "none",
                      !.canvas = RenderConceptTree(response.nodes, response.root_id),
                      !.lastOp = [op |-> "rendered", node |-> 0, response |-> response]]
    /\ NoRender("conceptRendered")
    /\ UNCHANGED <<graphPageVars, clusterVars>>

\* the failed request that also closes the cluster view
ConceptFailClosing(r) ==
    /\ r \in concept.pending
    /\ concept' = [concept EXCEPT
                      !.pending = concept.pending \ {r},
                      !.loading = "none",
                      !.canvas = CanvasMessage("error"),
                      !.lastOp = [op |-> "failed", node |-> 0, response |-> RefusedResponse]]
    /\ currentClusterId' = << >>
    /\ clusterView' = [clusterView EXCEPT !.shown = FALSE, !.summary = NoText]
    /\ NoRender("conceptFailed")
    /\ UNCHANGED <<graphPageVars, summaryCache, summaryReqs, numSummaryCalls>>

\* api.getConceptGraph rejects or answers success: false: the catch block
ConceptFail(r) ==
    /\ r \in concept.pending
    /\ concept' = [concept EXCEPT
                      !.pending = concept.pending \ {r},
                      !.loading = "none",
                      !.canvas = CanvasMessage("error"),
                      !.lastOp = [op |-> "failed", node |-> 0, response |-> RefusedResponse]]
    /\ NoRender("conceptFailed")
    /\ UNCHANGED <<graphPageVars, clusterVars>>

\* a tree is on the page and its n-th node can be clicked
TreeNode(n) ==
    /\ impl = "part_000"
    /\ concept.events < MaxConceptEvents
    /\ concept.container = "block"
    /\ concept.canvas.kind = "tree"
    /\ n \in 1..Len(concept.canvas.nodes)

\* click on the circle of the n-th node
CircleClick(n) ==
    /\ TreeNode(n)
    /\ concept' = [ConceptEvent("circle", n, RefusedResponse) EXCEPT
                      !.canvas = IF concept.isPathHighlighted
                                 THEN ClearPathHighlight(concept.canvas)
                                 ELSE HighlightPathToRoot(concept.canvas, n),
                      !.isPathHighlighted = ~concept.isPathHighlighted]
    /\ NoRender("circle")
    /\ UNCHANGED <<graphPageVars, clusterVars>>

\* the n-th node has the clickable label: layer 0 and an article url
HasArticleLink(n) ==
    /\ concept.canvas.nodes[n].layer = 0
    /\ concept.canvas.nodes[n].article_url

\* the click on the label that goes on to the circle's handler
ArticleLinkClickThrough(n) ==
    /\ TreeNode(n)
    /\ HasArticleLink(n)
    /\ concept' = [ConceptEvent("link", n, RefusedResponse) EXCEPT
                      !.opened = concept.opened \cup {concept.canvas.nodes[n].id},
                      !.canvas = IF concept.isPathHighlighted
                                 THEN ClearPathHighlight(concept.canvas)
                                 ELSE HighlightPathToRoot(concept.canvas, n),
                      !.isPathHighlighted = ~concept.isPathHighlighted]
    /\ NoRender("link")
    /\ UNCHANGED <<graphPageVars, clusterVars>>

\* click on the label of an article node: window.open(url)
ArticleLinkClick(n) ==
    /\ TreeNode(n)
    /\ HasArticleLink(n)
    /\ concept' = [ConceptEvent("link", n, RefusedResponse) EXCEPT
                      !.opened = concept.opened \cup {concept.canvas.nodes[n].id}]
    /\ NoRender("link")
    /\ UNCHANGED <<graphPageVars, clusterVars>>

(***************************************************************************)
(* VisualizationManager                                                    *)
(***************************************************************************)
\* the key without the sort of the story ids
GetCacheKeyUnsorted(searchId, clusterId, storyIds) ==
    searchId \o ":" \o Str(clusterId) \o ":" \o Join(storyIds)

\* _getCacheKey(searchId, clusterId, storyIds)
GetCacheKey(searchId, clusterId, storyIds) ==
    searchId \o ":" \o Str(clusterId) \o ":" \o Join(Sorted(storyIds))

\* clusterStoryIds: data.tweet_ids[index] where data.cluster_labels[index]
\* is clusterId, in the order of the data
RECURSIVE ClusterStoryIds(_, _, _)
ClusterStoryIds(data, clusterId, index) ==
    IF index > Len(data.cluster_labels) THEN << >>
    ELSE IF data.cluster_labels[index] = clusterId
    THEN <<data.tweet_ids[index]>> \o ClusterStoryIds(data, clusterId, index + 1)
    ELSE ClusterStoryIds(data, clusterId, index + 1)

\* the page after an event; a click on a cluster is a request for the
\* summary of its (search id, cluster id, story-id set)
VizEvent(op, triple, storyIds) ==
    [vizPage EXCEPT !.events = vizPage.events + 1,
                    !.requested = IF op = "click"
                                  THEN vizPage.requested \cup
                                         {[triple |-> triple, storyIds |-> storyIds]}
                                  ELSE vizPage.requested,
                    !.lastOp = [op |-> op, triple |-> triple, storyIds |-> storyIds]]

\* displayVisualization(topic) on the manager v, whose visualizations[topic]
\* is set
DisplayVisualization(v, topic) ==
    [v EXCEPT !.currentTopic = topic, !.highlightedCluster[topic] = << >>]

\* if (!this.visualizations[this.currentTopic]) this.currentTopic = topic
FirstVisualization(v, topic) ==
    IF v.visualizations[v.currentTopic] = Null
    THEN [v EXCEPT !.currentTopic = topic] ELSE v

\* createClusterVisualization(data, searchId, topic) on the manager v
CreateClusterVisualization(v, data, searchId, topic) ==
    DisplayVisualization(
        FirstVisualization(
            [v EXCEPT !.visualizations[topic] =
                          [searchId |-> searchId, data |-> data]], topic), topic)

\* handleGenerate once both analyses have arrived: the visualizations of the
\* two topics are created, top first
HandleGenerate(topViz, bottomViz) ==
    /\ vizPage.events < MaxVizEvents
    /\ viz' = CreateClusterVisualization(
                 CreateClusterVisualization(viz, topViz, TopicSearchId("top"), "top"),
                 bottomViz, TopicSearchId("bottom"), "bottom")
    /\ vizPage' = [VizEvent("create", << >>, << >>) EXCEPT !.details.shown = FALSE]
    /\ UNCHANGED kgVars

SwitchTopic(topic) ==
    /\ vizPage.events < MaxVizEvents
    /\ IF viz.visualizations[topic] # Null
       THEN /\ viz' = DisplayVisualization(viz, topic)
            /\ vizPage' = [VizEvent("switch", << >>, << >>) EXCEPT !.details.shown = FALSE]
       ELSE /\ viz' = viz
            /\ vizPage' = VizEvent("switch", << >>, << >>)
    /\ UNCHANGED kgVars

\* handleClusterClickByClusterId, up to the await of api.getSummary
HandleClusterClickByClusterId(clusterId, data, searchId, storyIds, cacheKey) ==
    /\ viz' = [viz EXCEPT !.highlightedCluster[viz.currentTopic] = <<clusterId>>]
    /\ IF cacheKey \in DOMAIN viz.summaryCache
       THEN vizPage' =
              [VizEvent("click", <<searchId, clusterId, Range(storyIds)>>, storyIds)
                 EXCEPT !.details = [shown |-> TRUE,
                                     title |-> viz.summaryCache[cacheKey].title,
                                     summary |-> viz.summaryCache[cacheKey].summary]]
       ELSE vizPage' =
              [VizEvent("click", <<searchId, clusterId, Range(storyIds)>>, storyIds)
                 EXCEPT !.details = [shown |-> TRUE,
                                     title |-> PageText("loading", << >>),
                                     summary |-> PageText("loading", << >>)],
                        !.calls = vizPage.calls + 1,
                        !.pending = vizPage.pending \cup
                            { [id |-> vizPage.calls + 1, cacheKey |-> cacheKey,
                               searchId |-> searchId, clusterId |-> clusterId,
                               storyIds |-> storyIds] }]

\* plotly_click on a point of cluster clusterId: handleClusterClick
ClusterClick(clusterId) ==
    /\ vizPage.events < MaxVizEvents
    /\ viz.visualizations[viz.currentTopic] # Null
    /\ clusterId \in Range(viz.visualizations[viz.currentTopic].data.cluster_labels)
    /\ LET currentViz == viz.visualizations[viz.currentTopic]
           storyIds == ClusterStoryIds(currentViz.data, clusterId, 1)
       IN  HandleClusterClickByClusterId(clusterId, currentViz.data,
               currentViz.searchId, storyIds,
               GetCacheKey(currentViz.searchId, clusterId, storyIds))
    /\ UNCHANGED kgVars

\* api.getSummary resolves: handleClusterClickByClusterId resumes
VizSummarySucceed(r) ==
    /\ r \in vizPage.pending
    /\ viz' = [viz EXCEPT !.summaryCache =
                  Cached(viz.summaryCache, r.cacheKey,
                         SummaryResponse(r.searchId, r.clusterId, r.storyIds))]
    /\ vizPage' =
          [vizPage EXCEPT
              !.pending = vizPage.pending \ {r},
              !.details = [shown |-> TRUE,
                           title |-> SummaryResponse(r.searchId, r.clusterId, r.storyIds).title,
                           summary |-> SummaryResponse(r.searchId, r.clusterId, r.storyIds).summary],
              !.answered = vizPage.answered \cup
                  { [triple |-> <<r.searchId, r.clusterId, Range(r.storyIds)>>,
                     storyIds |-> r.storyIds] },
              !.lastOp = [op |-> "summary", triple |-> << >>, storyIds |-> << >>]]
    /\ UNCHANGED kgVars

\* api.getSummary rejects: the catch block
VizSummaryFail(r) ==
    /\ r \in vizPage.pending
    /\ vizPage' =
          [vizPage EXCEPT
              !.pending = vizPage.pending \ {r},
              !.details = [shown |-> TRUE,
                           title |-> PageText("error", << >>),
                           summary |-> PageText("failed", << >>)],
              !.lastOp = [op |-> "summaryFailed", triple |-> << >>, storyIds |-> << >>]]
    /\ UNCHANGED <<viz, kgVars>>

(***************************************************************************)
(* applyForceLayout, one loop step at a time                               *)
(***************************************************************************)
\* node positions (hundredths) of a sigma graph handed to applyForceLayout:
\* apart, two nodes closer than 0.1, two nodes at one position
SimPositions ==
    { << [x |-> 100, y |-> 100], [x |-> 400, y |-> 500], [x |-> 200, y |-> 100] >>,
      << [x |-> 100, y |-> 100], [x |-> 108, y |-> 100], [x |-> 300, y |-> 700] >>,
      << [x |-> 300, y |-> 300], [x |-> 300, y |-> 300], [x |-> 400, y |-> 300] >>,
      << [x |-> 5000, y |-> 2000], [x |-> 5000, y |-> 2100] >>,
      << [x |-> 700, y |-> 700], [x |-> 700, y |-> 700] >> }

\* its edges: none, one, a chain, one to a node that is not in the graph
SimEdges ==
    { << >>, << [source |-> 0, target |-> 1] >>,
      << [source |-> 1, target |-> 0], [source |-> 1, target |-> 2] >>,
      << [source |-> 0, target |-> 7], [source |-> 0, target |-> 1] >> }

\* the locals of applyForceLayout at the head of the first iteration
SimStart(positions, edges) ==
    [nodes |-> Evaluated([i \in 1..Len(positions) |->
                  [key |-> i - 1, x |-> positions[i].x, y |-> positions[i].y,
                   vx |-> 0, vy |-> 0]]),
     edges |-> edges,
     forces |-> Evaluated([i \in 1..Len(positions) |-> VZero]),
     iter |-> 0, pc |-> "repulse", i |-> 1, j |-> 2, e |-> 1,
     dist |-> 0, step |-> "start"]

simOnly == <<pageVars, vizVars, app>>

\* the body of the loops over i < j: the pair (nodes[i], nodes[j])
RepulsePair ==
    /\ sim # Null
    /\ sim.pc = "repulse"
    /\ sim.j <= Len(sim.nodes)
    /\ LET n1 == sim.nodes[sim.i]
           n2 == sim.nodes[sim.j]
       IN  sim' = [sim EXCEPT
              !.forces = ApplyPair(sim.forces, sim.j, sim.i, RepulsionOn2(n1, n2)),
              !.dist = ForceDist(n2.x - n1.x, n2.y - n1.y),
              !.i = IF sim.j < Len(sim.nodes) THEN sim.i ELSE sim.i + 1,
              !.j = IF sim.j < Len(sim.nodes) THEN sim.j + 1 ELSE sim.i + 2,
              !.step = "repulse"]
    /\ UNCHANGED simOnly

\* the body of edges.forEach: the edge edges[e]
SpringStep ==
    /\ sim # Null
    /\ sim.pc = "spring"
    /\ sim.e <= Len(sim.edges)
    /\ LET i1 == FindKey(sim.nodes, sim.edges[sim.e].source)
           i2 == FindKey(sim.nodes, sim.edges[sim.e].target)
       IN  sim' = [sim EXCEPT
              !.forces = SpringEdge(sim.nodes, sim.forces, i1, i2),
              !.dist = IF i1 = 0 \/ i2 = 0 THEN sim.dist
                       ELSE ForceDist(sim.nodes[i2].x - sim.nodes[i1].x,
                                      sim.nodes[i2].y - sim.nodes[i1].y),
              !.e = sim.e + 1,
              !.step = IF i1 = 0 \/ i2 = 0 THEN "skip" ELSE "spring"]
    /\ UNCHANGED simOnly

\* a loop ends: the pairs are done, or the edges are
LoopExit ==
    /\ sim # Null
    /\ \/ sim.pc = "repulse" /\ sim.j > Len(sim.nodes)
          /\ sim' = [sim EXCEPT !.pc = "spring", !.e = 1, !.step = "exit"]
       \/ sim.pc = "spring" /\ sim.e > Len(sim.edges)
          /\ sim' = [sim EXCEPT !.pc = "move", !.step = "exit"]
    /\ UNCHANGED simOnly

\* 'Update positions', then the head of the next iteration: forces reset
UpdatePositions ==
    /\ sim # Null
    /\ sim.pc = "move"
    /\ sim' = [sim EXCEPT
          !.nodes = MoveAll(sim.nodes, sim.forces),
          !.forces = Evaluated([i \in 1..Len(sim.nodes) |-> VZero]),
          !.iter = sim.iter + 1,
          !.pc = IF sim.iter + 1 < iterations /\ sim.iter + 1 < MaxSimIterations
                 THEN "repulse" ELSE "done",
          !.i = 1, !.j = 2, !.e = 1, !.step = "move"]
    /\ UNCHANGED simOnly

(***************************************************************************)
(* Specifications                                                          *)
(***************************************************************************)
\* The similarity graph page: fetches, renders, slider and topic toggle.
Next ==
    \/ \E v \in ThresholdValues : ThresholdInput(v) /\ UNCHANGED vizVars
    \/ \E t \in Topics : TopicToggle(t) /\ UNCHANGED vizVars
    \/ GenerateClick /\ UNCHANGED vizVars
    \/ \E f \in fetches : \E g \in ServiceGraphsFor(f.searchId) :
          FetchSucceed(f, g) /\ UNCHANGED vizVars
    \/ \E f \in fetches : FetchFail(f) /\ UNCHANGED vizVars
    \/ \E i \in 1..Len(timers) : TimerFire(i) /\ UNCHANGED vizVars

Spec == Init /\ [][Next]_vars

\* Renders of a graph restored from localStorage under the threshold slider.
InitRender ==
    /\ InitWith(StoredGraphs) /\ VizConstructed /\ sim = Null
    /\ app = AppConstructed("part_000")

NextRender ==
    \/ \E v \in SliderValues : ThresholdInput(v) /\ UNCHANGED vizVars
    \/ \E i \in 1..Len(timers) : TimerFire(i) /\ UNCHANGED vizVars

SpecRender == InitRender /\ [][NextRender]_vars

\* The similarity graph page: node clicks and summaries, with graphs
\* generated anew and topic switches.
NextCluster ==
    \/ \E i \in 1..2 : NodeClick(i) /\ UNCHANGED vizVars
    \/ \E r \in summaryReqs : SummarySucceed(r) /\ UNCHANGED vizVars
    \/ \E r \in summaryReqs : SummaryFail(r) /\ UNCHANGED vizVars
    \/ \E t \in Topics : TopicToggle(t) /\ UNCHANGED vizVars
    \/ GenerateClick /\ UNCHANGED vizVars
    \/ \E f \in fetches : \E g \in ReclusteredGraphsFor(f.searchId) :
          FetchSucceed(f, g) /\ UNCHANGED vizVars
    \/ \E f \in fetches : FetchFail(f) /\ UNCHANGED vizVars
    \/ \E i \in 1..Len(timers) : TimerFire(i) /\ UNCHANGED vizVars

SpecCluster == Init /\ [][NextCluster]_vars

\* The cluster view of the similarity graph page: node clicks, summaries,
\* close, concept hierarchy requests and clicks on the rendered tree.
NextConcept ==
    \/ \E i \in 1..2 : userEvents < MaxNodeClicks /\ NodeClick(i) /\ UNCHANGED vizVars
    \/ \E r \in summaryReqs : SummarySucceed(r) /\ UNCHANGED vizVars
    \/ \E r \in summaryReqs : SummaryFail(r) /\ UNCHANGED vizVars
    \/ \E i \in 1..Len(timers) : TimerFire(i) /\ UNCHANGED vizVars
    \/ HideClusterView /\ UNCHANGED vizVars
    \/ GenerateConceptGraph /\ UNCHANGED vizVars
    \/ \E r \in concept.pending : \E response \in ConceptResponses :
          ConceptSucceed(r, response) /\ UNCHANGED vizVars
    \/ \E r \in concept.pending : ConceptFail(r) /\ UNCHANGED vizVars
    \/ \E n \in 1..Len(concept.canvas.nodes) : CircleClick(n) /\ UNCHANGED vizVars
    \/ \E n \in 1..Len(concept.canvas.nodes) : ArticleLinkClick(n) /\ UNCHANGED vizVars

SpecConcept == Init /\ [][NextConcept]_vars

\* The cluster scatter page: VisualizationManager and its summary cache. The
\* similarity graph page stays as it is without generated clusters.
InitViz ==
    /\ InitWith({})
    /\ impl = "part_000"
    /\ ~clustersGenerated
    /\ VizConstructed
    /\ sim = Null
    /\ app = AppConstructed("part_000")

NextViz ==
    \/ \E topViz \in AnalysisData : \E bottomViz \in AnalysisData :
          HandleGenerate(topViz, bottomViz)
    \/ \E t \in Topics : SwitchTopic(t)
    \/ \E c \in 0..1 : ClusterClick(c)
    \/ \E r \in vizPage.pending : VizSummarySucceed(r)
    \/ \E r \in vizPage.pending : VizSummaryFail(r)

SpecViz == InitViz /\ [][NextViz]_vars

\* Either page of a session: the cluster scatter page before the clusters are
\* generated, the similarity graph page with its cluster view after.
NextPages ==
    \/ \E i \in 1..2 : NodeClick(i) /\ UNCHANGED vizVars
    \/ \E r \in summaryReqs : SummarySucceed(r) /\ UNCHANGED vizVars
    \/ \E r \in summaryReqs : SummaryFail(r) /\ UNCHANGED vizVars
    \/ \E i \in 1..Len(timers) : TimerFire(i) /\ UNCHANGED vizVars
    \/ ~clustersGenerated /\ impl = "part_000" /\ NextViz

SpecPages == Init /\ [][NextPages]_vars

\* One call of applyForceLayout, on graphs of two and three nodes.
InitForce ==
    /\ InitWith({})
    /\ impl = "part_000"
    /\ ~clustersGenerated
    /\ VizConstructed
    /\ \E positions \in SimPositions : \E edges \in SimEdges :
          sim = SimStart(positions, edges)
    /\ app = AppConstructed("part_000")

NextForce ==
    \/ RepulsePair
    \/ SpringStep
    \/ LoopExit
    \/ UpdatePositions

SpecForce == InitForce /\ [][NextForce]_vars

\* The similarity graph page: clusters selected and hierarchies requested
\* while the topic is switched.
NextSelect ==
    \/ \E i \in 1..2 : NodeClick(i) /\ UNCHANGED vizVars
    \/ \E t \in Topics : TopicToggle(t) /\ UNCHANGED vizVars
    \/ \E i \in 1..Len(timers) : TimerFire(i) /\ UNCHANGED vizVars
    \/ \E r \in summaryReqs : SummarySucceed(r) /\ UNCHANGED vizVars
    \/ GenerateConceptGraph /\ UNCHANGED vizVars

SpecSelect == Init /\ [][NextSelect]_vars

(***************************************************************************)
(* Edge filter                                                             *)
(***************************************************************************)
\* the similarity score of an edge; 0.5 when the edge has none
SimilarityScore(edge) ==
    IF "similarity" \in DOMAIN edge THEN edge.similarity ELSE 50

\* C1: renderGraph includes an edge in the rendered graph if and only if the
\* edge's similarity is at least the current threshold.
C1_IncludedIffAtLeastThreshold ==
    (lastOp.rendered /\ currentGraph # Null) =>
        \A i \in 1..Len(currentGraphData.edges) :
            (\E j \in 1..Len(currentGraph.edges) : currentGraph.edges[j].index = i)
                <=> SimilarityScore(currentGraphData.edges[i]) >= currentThreshold

(***************************************************************************)
(* Position cache and renders                                              *)
(***************************************************************************)
\* C2: once the displayed graph has had its first render, a threshold-slider
\* change leaves the position cache (calculatedPositions) as it was.
C2_ThresholdKeepsPositions ==
    [][(/\ currentThreshold' # currentThreshold
        /\ currentGraphData # Null
        /\ hist[currentGraphData.gen].firstPos # Null)
          => calculatedPositions' = calculatedPositions]_vars

\* C3: every render of a generated graph places its nodes where the first
\* render of that graph placed them.
C3_SameCoordinates ==
    currentGraph # Null =>
        PositionsOf(currentGraph.nodes) = hist[currentGraph.gen].firstPos

\* C4: the first render of a graph fetched by generateGraph runs the
\* simulation from random seed positions; it never takes positions from the
\* cache.
C4_FirstRenderFresh ==
    \A g \in Gens \ {0} : hist[g].firstFresh # "cached"

\* C5: applyForceLayout runs exactly once on every fetched graph, at its first
\* render, and never in a threshold change.
C5_LayoutOnce ==
    /\ \A g \in Gens \ {0} :
          /\ hist[g].layouts <= 1
          /\ hist[g].firstPos # Null => hist[g].layouts = 1
    /\ ~(lastOp.op = "threshold" /\ lastOp.layout)

\* C7: after every render, the graph rendered is the graph data of the
\* current topic.
C7_RenderedIsCurrentTopic ==
    lastOp.rendered => currentGraphData = graphData[currentTopic]

\* C10: a topic-toggle click and the render it schedules leave the graph data
\* of both topics, the search ids, the threshold and every cached position
\* as they were.
C10_ToggleFrame ==
    [][lastOp'.op = "toggle" =>
          /\ graphData' = graphData
          /\ searchIds' = searchIds
          /\ localStorage' = localStorage
          /\ currentThreshold' = currentThreshold
          /\ calculatedPositions # Null => calculatedPositions' = calculatedPositions]_vars

\* the toggle's render has run while both topics hold a graph and the cache
\* holds the positions of the other topic's graph
C10_Witness ==
    /\ lastOp = [op |-> "toggle", rendered |-> TRUE, layout |-> FALSE]
    /\ \A t \in Topics : graphData[t] # Null
    /\ currentGraphData = graphData[currentTopic]
    /\ \E t \in Topics \ {currentTopic} :
          /\ hist[graphData[t].gen].firstPos # Null
          /\ calculatedPositions = StorePositions(
                [i \in 1..Len(graphData[t].nodes) |->
                    [originalId |-> graphData[t].nodes[i].id,
                     x |-> hist[graphData[t].gen].firstPos[i].x,
                     y |-> hist[graphData[t].gen].firstPos[i].y]])

(***************************************************************************)
(* Summaries                                                               *)
(***************************************************************************)
\* C6: the title and the summary shown in the cluster view are those of the
\* current selection: a summary response is not applied to the view when
\* another node has been selected since it was requested.
C6_ResponseOfCurrentSelection ==
    (clusterView.shown /\ currentClusterId # << >>) =>
        /\ clusterView.title.kind = "title" =>
              clusterView.title.of[2] = currentClusterId[1]
        /\ clusterView.summary.kind = "summary" =>
              clusterView.summary.of[2] = currentClusterId[1]

\* C8: a click that requests the summary of a (search id, cluster id,
\* story-id set) requested before, with the story ids in another order, is
\* served from the summary cache: the Summary Service is not invoked again.
C8_SecondRequestFromCache ==
    [][(/\ vizPage'.lastOp.op = "click"
        /\ \E q \in vizPage.requested :
              /\ q.triple = vizPage'.lastOp.triple
              /\ q.storyIds # vizPage'.lastOp.storyIds)
          => /\ vizPage'.calls = vizPage.calls
             /\ vizPage'.details.summary =
                   PageText("summary", vizPage'.lastOp.triple)]_vars

\* C8, amended: a click that requests the summary of a (search id, cluster
\* id, story-id set) for which an earlier request has been answered, in
\* whatever order the story ids come, is served from the summary cache: the
\* Summary Service is not invoked again.
C8_AnsweredRequestFromCache ==
    [][(/\ vizPage'.lastOp.op = "click"
        /\ \E a \in vizPage.answered : a.triple = vizPage'.lastOp.triple)
          => /\ vizPage'.calls = vizPage.calls
             /\ vizPage'.details.summary =
                   PageText("summary", vizPage'.lastOp.triple)]_vars

\* the summary of a cluster was answered, the same stories came again in
\* another order, and the click on the cluster showed the summary after one
\* invocation of the Summary Service
C8_Witness ==
    /\ vizPage.lastOp.op = "click"
    /\ \E a \in vizPage.answered :
          /\ a.triple = vizPage.lastOp.triple
          /\ a.storyIds # vizPage.lastOp.storyIds
    /\ vizPage.details.summary = PageText("summary", vizPage.lastOp.triple)
    /\ vizPage.calls = 1

\* the (search id, cluster id, story-id set) of the node selected in the
\* rendered graph
SelectedTriple ==
    LET node == CHOOSE n \in Range(currentGraph.nodes) :
                    n.originalId = currentClusterId[1]
    IN  <<searchIds[currentTopic], node.originalId, Range(node.storyIds)>>

\* C9: every summary cache is keyed by (search id, cluster id, story-id set):
\* the summary a click on a node takes from the cache is the summary of the
\* node's search id, cluster id and stories.
C9_KeyedByTriple ==
    (/\ impl = "part_000"
     /\ lastOp.op = "click"
     /\ clusterView.summary.kind = "summary")
        => clusterView.summary.of = SelectedTriple

(***************************************************************************)
(* Topic-scoped state                                                      *)
(***************************************************************************)
\* the position cache holds the positions the layout gave the graph of topic
CacheHolds(topic) ==
    /\ graphData[topic] # Null
    /\ hist[graphData[topic].gen].firstFresh = "layout"
    /\ calculatedPositions # Null
    /\ calculatedPositions = StorePositions(
          [i \in 1..Len(graphData[topic].nodes) |->
              [originalId |-> graphData[topic].nodes[i].id,
               x |-> hist[graphData[topic].gen].firstPos[i].x,
               y |-> hist[graphData[topic].gen].firstPos[i].y]])

\* C11: the positions cached for a topic are cleared only by a successful
\* fetch for that topic: a fetch for another topic leaves them in place, and
\* no threshold change or topic switch clears cached positions.
C11_ClearedByOwnFetchOnly ==
    [][/\ \A t \in Topics :
            (lastOp'.op = "fetched" /\ graphData'[t] = graphData[t] /\ CacheHolds(t))
                => (calculatedPositions' # Null
                    /\ calculatedPositions' = calculatedPositions)
       /\ (lastOp'.op \in {"threshold", "toggle"} /\ calculatedPositions # Null)
                => calculatedPositions' # Null]_vars

\* C12: a topic switch while a cluster is selected returns to Idle: after the
\* toggle no cluster is selected and the cluster view is not shown.
C12_ToggleReturnsToIdle ==
    [][(lastOp'.op = "toggle" /\ ~lastOp'.rendered /\ currentTopic' # currentTopic)
          => (currentClusterId' = << >> /\ ~clusterView'.shown)]_vars

(***************************************************************************)
(* Cluster view and concept hierarchy                                      *)
(***************************************************************************)
\* C13: after hideClusterView (the close action) the selection is cleared,
\* currentClusterId is null, and no concept hierarchy remains rendered in
\* the concept canvas.
C13_CloseReturnsToIdle ==
    [][concept'.lastOp.op = "close" /\ concept'.events # concept.events
          => (currentClusterId' = << >> /\ concept'.canvas.kind # "tree")]_vars

\* no node and no link of the canvas carries the class highlighted or dimmed
Unclassified(canvas) ==
    /\ \A i \in 1..Len(canvas.nodes) :
          ~canvas.nodes[i].highlighted /\ ~canvas.nodes[i].dimmed
    /\ \A i \in 1..Len(canvas.links) :
          ~canvas.links[i].highlighted /\ ~canvas.links[i].dimmed

\* C14: path highlight is a two-state toggle: a circle click on any node in
\* the highlighted state returns to unhighlighted, the same tree with no node
\* or link classified highlighted or dimmed.
C14_ClickClearsHighlight ==
    [][(/\ concept'.lastOp.op = "circle"
        /\ concept'.events # concept.events
        /\ concept.isPathHighlighted)
          => (/\ ~concept'.isPathHighlighted
              /\ Unclassified(concept'.canvas)
              /\ concept'.canvas.kind = "tree"
              /\ Len(concept'.canvas.nodes) = Len(concept.canvas.nodes)
              /\ \A i \in 1..Len(concept.canvas.nodes) :
                    /\ concept'.canvas.nodes[i].id = concept.canvas.nodes[i].id
                    /\ concept'.canvas.nodes[i].parent = concept.canvas.nodes[i].parent)]_vars

\* a circle click has cleared a highlighted path of a tree with links
C14_Witness ==
    /\ concept.lastOp.op = "circle"
    /\ ~concept.isPathHighlighted
    /\ concept.canvas.kind = "tree"
    /\ Len(concept.canvas.links) >= 2
    /\ Unclassified(concept.canvas)

\* the nodes of the subtree below and including the a-th node
RECURSIVE Subtree(_, _)
Subtree(elements, a) ==
    {a} \cup UNION { Subtree(elements, j) :
                       j \in { i \in 1..Len(elements) : elements[i].parent = a } }

\* the a-th node is the n-th node or one of its ancestors
OnPathToRoot(elements, a, n) == n \in Subtree(elements, a)

\* C15: a circle click in the unhighlighted state marks highlighted exactly
\* the clicked node and its ancestors up to and including the root and marks
\* every other node dimmed; a link is highlighted iff both its endpoints are
\* on that path and dimmed otherwise; nothing is both highlighted and dimmed.
C15_HighlightsPathToRoot ==
    [][(/\ concept'.lastOp.op = "circle"
        /\ concept'.events # concept.events
        /\ ~concept.isPathHighlighted)
          => LET n == concept'.lastOp.node
                 nodes == concept'.canvas.nodes
                 links == concept'.canvas.links
             IN  /\ concept'.isPathHighlighted
                 /\ OnPathToRoot(nodes, 1, n) /\ nodes[1].highlighted
                 /\ \A i \in 1..Len(nodes) :
                       /\ nodes[i].highlighted <=> OnPathToRoot(nodes, i, n)
                       /\ nodes[i].dimmed <=> ~OnPathToRoot(nodes, i, n)
                 /\ \A i \in 1..Len(links) :
                       /\ links[i].highlighted <=>
                             (/\ OnPathToRoot(nodes, i + 1, n)
                              /\ OnPathToRoot(nodes, nodes[i + 1].parent, n))
                       /\ links[i].dimmed <=> ~links[i].highlighted]_vars

\* the path of a node two links below the root is highlighted, a node off
\* the path is dimmed
C15_Witness ==
    /\ concept.lastOp.op = "circle"
    /\ concept.isPathHighlighted
    /\ concept.canvas.kind = "tree"
    /\ LET n == concept.lastOp.node
           nodes == concept.canvas.nodes
       IN  /\ nodes[n].parent # 0
           /\ nodes[nodes[n].parent].parent # 0
           /\ nodes[n].highlighted
           /\ \E i \in 1..Len(nodes) : nodes[i].dimmed
           /\ \E i \in 1..Len(concept.canvas.links) : concept.canvas.links[i].dimmed

\* C16: a click on the article link of a layer-0 node with an article URL
\* opens the article and leaves isPathHighlighted and every highlighted or
\* dimmed class as they were; a click on a circle opens no article, so one
\* click never takes both effects.
C16_LinkClickKeepsHighlight ==
    [][/\ (concept'.lastOp.op = "link" /\ concept'.events # concept.events)
            => (/\ concept'.isPathHighlighted = concept.isPathHighlighted
                /\ concept'.canvas = concept.canvas
                /\ concept.canvas.nodes[concept'.lastOp.node].layer = 0
                /\ concept.canvas.nodes[concept'.lastOp.node].article_url
                /\ concept.canvas.nodes[concept'.lastOp.node].id \in concept'.opened)
       /\ (concept'.lastOp.op = "circle" /\ concept'.events # concept.events)
            => concept'.opened = concept.opened]_vars

\* the article link of a node of a highlighted path has been clicked
C16_Witness ==
    /\ concept.lastOp.op = "link"
    /\ concept.isPathHighlighted
    /\ concept.canvas.kind = "tree"
    /\ concept.canvas.nodes[concept.lastOp.node].id \in concept.opened
    /\ \E i \in 1..Len(concept.canvas.nodes) : concept.canvas.nodes[i].highlighted
    /\ \E i \in 1..Len(concept.canvas.nodes) : concept.canvas.nodes[i].dimmed

(***************************************************************************)
(* Concept hierarchy build                                                 *)
(***************************************************************************)
\* the step is the render of an answered concept hierarchy
RenderStep == lastOp'.op = "conceptRendered" /\ concept'.pending # concept.pending

\* C17: renderConceptTree rejects the build and renders no tree when the
\* declared root id is absent from the supplied node list.
C17_MissingRootRejected ==
    [][(/\ RenderStep
        /\ concept'.lastOp.response.root_id
              \notin ConceptIds(concept'.lastOp.response.nodes))
          => (/\ concept'.canvas.kind \in {"invalidRoot", "noData"}
              /\ concept'.canvas.nodes = << >>
              /\ concept'.canvas.links = << >>)]_vars

\* a non-empty node list without its declared root has been answered
C17_Witness ==
    /\ concept.lastOp.op = "rendered"
    /\ concept.lastOp.response.nodes # << >>
    /\ concept.lastOp.response.root_id \notin ConceptIds(concept.lastOp.response.nodes)
    /\ concept.canvas.kind = "invalidRoot"

\* C18: renderConceptTree rejects the build and renders no tree, not even a
\* partial one, when a node declares a child id that is no id of the
\* supplied list.
C18_UnresolvedChildRejected ==
    [][(/\ RenderStep
        /\ \E i \in 1..Len(concept'.lastOp.response.nodes) :
              \E childId \in Range(concept'.lastOp.response.nodes[i].children) :
                 childId \notin ConceptIds(concept'.lastOp.response.nodes))
          => concept'.canvas.kind # "tree"]_vars

\* C19: renderConceptTree reports a build error and renders nothing when the
\* supplied list holds a node that is not reachable from the declared root:
\* here a node that is not the root and that no node declares as a child.
C19_UnreachableNodeRejected ==
    [][(/\ RenderStep
        /\ \E i \in 1..Len(concept'.lastOp.response.nodes) :
              /\ concept'.lastOp.response.nodes[i].id # concept'.lastOp.response.root_id
              /\ \A j \in 1..Len(concept'.lastOp.response.nodes) :
                    concept'.lastOp.response.nodes[i].id
                       \notin Range(concept'.lastOp.response.nodes[j].children))
          => concept'.canvas.kind # "tree"]_vars

\* the step is a failed concept request (rejection or success: false) or a
\* build that ends with the missing-root message
FailedConceptStep ==
    \/ lastOp'.op = "conceptFailed" /\ concept'.pending # concept.pending
    \/ RenderStep /\ concept'.canvas.kind = "invalidRoot"

\* C20: a failed concept-hierarchy request or build changes only the concept
\* area: the selected cluster id, the cluster view with its title and
\* summary, the summary cache, the graph data and the cached positions are
\* unchanged.
C20_FailureKeepsClusterView ==
    [][FailedConceptStep
          => (/\ currentClusterId' = currentClusterId
              /\ clusterView' = clusterView
              /\ summaryCache' = summaryCache
              /\ graphData' = graphData
              /\ currentGraphData' = currentGraphData
              /\ calculatedPositions' = calculatedPositions
              /\ concept'.canvas.kind \in {"error", "invalidRoot"}
              /\ concept'.loading = "none")]_vars

\* a concept request has failed while a cluster with its summary is shown
\* over a rendered graph
C20_Witness ==
    /\ lastOp.op = "conceptFailed"
    /\ concept.canvas.kind = "error"
    /\ currentClusterId = <<1>>
    /\ clusterView.shown
    /\ clusterView.summary # PageText("generating", << >>)
    /\ calculatedPositions # Null

(***************************************************************************)
(* Failures and empty answers                                              *)
(***************************************************************************)
\* C21: when the Data Service request of generateGraph fails, an error
\* message is shown (the loading element is displayed and holds the
\* message), no render and no layout is run for that request, and the graph
\* data of every topic and the cached positions are left unchanged.
C21_FetchFailureShowsError ==
    [][(lastOp'.op = "fetchFailed" /\ fetches' # fetches)
          => (/\ dom'.loadingContent = "error"
              /\ dom'.loading = "flex"
              /\ ~lastOp'.rendered /\ ~lastOp'.layout
              /\ timers' = timers
              /\ hist' = hist
              /\ graphData' = graphData
              /\ currentGraphData' = currentGraphData
              /\ calculatedPositions' = calculatedPositions)]_vars

\* C22: a graph with zero nodes is not rendered as an empty canvas and no
\* empty layout is cached for it (the page shows a "no data" state instead).
C22_EmptyGraphNotRendered ==
    /\ currentGraph # Null => currentGraph.nodes # << >>
    /\ calculatedPositions # Null => DOMAIN calculatedPositions # {}

C24_LateSummaryIgnored ==
    [][(/\ vizPage'.pending # vizPage.pending
        /\ vizPage'.calls = vizPage.calls
        /\ ~vizPage.details.shown)
          => ~vizPage'.details.shown]_vars

\* C25: the concept hierarchy displayed belongs to the selected cluster: the
\* response of a concept request is rendered only if the cluster of the
\* request is still the selected one (it is not rendered after another
\* cluster was selected or the view was closed).
C25_ConceptOfSelectedCluster ==
    [][(RenderStep /\ concept'.canvas.kind = "tree")
          => \E r \in concept.pending \ concept'.pending :
                currentClusterId = <<r.clusterId>>]_vars

(***************************************************************************)
(* Stored graph data and the session flag                                  *)
(***************************************************************************)
\* C26: graph generation consults the cache of fetched graph data keyed by
\* search id first: a Data Service request is issued only when the cache has
\* no entry for the search id of the topic.
C26_FetchOnlyOnCacheMiss ==
    [][(impl = "part_000" /\ numFetches' # numFetches)
          => \A f \in fetches' \ fetches : localStorage[f.searchId] = Null]_vars

\* C27: when the session flag clustersGenerated is not 'true' at the
\* initialisation of the similarity graph page, the stored search ids are
\* not loaded and no generate click, topic toggle or threshold change issues
\* a Data Service request or renders a graph.
C27_NoGraphWithoutClusters ==
    ~clustersGenerated =>
        /\ searchIds = NoIds
        /\ graphData = NoGraphs
        /\ numFetches = 0 /\ fetches = {}
        /\ timers = << >>
        /\ currentGraph = Null /\ currentGraphData = Null
        /\ calculatedPositions = Null
        /\ ~lastOp.rendered
        /\ \A g \in Gens : hist[g] = NoHist

\* without the flag, with graph data in localStorage, the topic was toggled,
\* the threshold changed and the generate button clicked
C27_Witness ==
    /\ ~clustersGenerated
    /\ localStorage["s1"] # Null
    /\ currentTopic = "bottom"
    /\ currentThreshold # 50
    /\ lastOp.op = "alert"
    /\ userEvents = MaxUserEvents


(***************************************************************************)
(* Node sizes and edge styles                                              *)
(***************************************************************************)
\* C28: in every rendered graph with nodes, each node's radius is
\* minSize + (size - min) / (max - min) * (maxSize - minSize) with minSize 5
\* and maxSize 30 (radii in hundredths, cut to a whole hundredth): the smallest
\* story count gets 5, the largest 30, counts strictly between get radii
\* strictly between, a larger count never a smaller radius; when all nodes
\* share one size the denominator is 1 and every radius is 5.
C28_NodeRadiusScaling ==
    (currentGraph # Null /\ currentGraph.nodes # << >>) =>
        LET counts == [i \in 1..Len(currentGraph.nodes) |->
                          currentGraph.nodes[i].storiesCount]
            mn == SeqMin(counts, 1)
            mx == SeqMax(counts, 1)
        IN  \A i \in 1..Len(currentGraph.nodes) :
              LET n == currentGraph.nodes[i]
              IN  /\ n.storiesCount = mn => n.size = 500
                  /\ (mx > mn /\ n.storiesCount = mx) => n.size = 3000
                  /\ (mn < n.storiesCount /\ n.storiesCount < mx)
                        => (500 < n.size /\ n.size < 3000)
                  /\ mx > mn =>
                        /\ (n.size - 500) * (mx - mn) <= (n.storiesCount - mn) * 2500
                        /\ (n.storiesCount - mn) * 2500 < (n.size - 500 + 1) * (mx - mn)
                  /\ mx = mn => n.size = 500
                  /\ \A j \in 1..Len(currentGraph.nodes) :
                        currentGraph.nodes[j].storiesCount < n.storiesCount
                           => currentGraph.nodes[j].size < n.size

\* a graph drawn with a story count strictly between the smallest and largest
C28_Witness ==
    /\ currentGraph # Null /\ currentGraph.nodes # << >>
    /\ lastOp.rendered
    /\ \E i, j, l \in 1..Len(currentGraph.nodes) :
          /\ currentGraph.nodes[j].storiesCount < currentGraph.nodes[i].storiesCount
          /\ currentGraph.nodes[i].storiesCount < currentGraph.nodes[l].storiesCount
          /\ currentGraph.nodes[j].size = 500
          /\ currentGraph.nodes[i].size = 1333
          /\ currentGraph.nodes[l].size = 3000


\* C29: every included edge has the width of its similarity's tier, whatever
\* the threshold: above 0.8 width 3.5, from 0.5 to 0.8 width 2.5, below 0.5
\* width 1.5; at threshold 0.5, of edges with similarity 0.3, 0.5 and 0.81
\* those with 0.5 (width 2.5) and 0.81 (width 3.5) are included.
C29_EdgeStyleBySimilarity ==
    (lastOp.rendered /\ currentGraph # Null) =>
        /\ \A j \in 1..Len(currentGraph.edges) :
              LET s == SimilarityScore(currentGraphData.edges[currentGraph.edges[j].index])
              IN  /\ s > 80 => currentGraph.edges[j].size = 35
                  /\ (50 <= s /\ s <= 80) => currentGraph.edges[j].size = 25
                  /\ s < 50 => currentGraph.edges[j].size = 15
        /\ currentThreshold = 50 =>
              \A i \in 1..Len(currentGraphData.edges) :
                 LET s == SimilarityScore(currentGraphData.edges[i])
                     shown == { currentGraph.edges[j].size :
                                  j \in { l \in 1..Len(currentGraph.edges) :
                                            currentGraph.edges[l].index = i } }
                 IN  /\ s = 30 => shown = {}
                     /\ s = 50 => shown = {25}
                     /\ s = 81 => shown = {35}


\* C30: an edge without a similarity is rendered as an edge of similarity 0.5
\* (included from threshold 0.5 down, width 2.5); an edge that has a
\* similarity, 0 included, is included and drawn by that value and no other.
C30_OnlyMissingSimilarityDefaulted ==
    (lastOp.rendered /\ currentGraph # Null) =>
        \A i \in 1..Len(currentGraphData.edges) :
            LET edge == currentGraphData.edges[i]
                drawn == { currentGraph.edges[j] :
                             j \in { l \in 1..Len(currentGraph.edges) :
                                       currentGraph.edges[l].index = i } }
            IN  IF "similarity" \notin DOMAIN edge
                THEN /\ drawn # {} <=> currentThreshold <= 50
                     /\ \A e \in drawn : e.similarity = 50 /\ e.size = 25
                ELSE /\ drawn # {} <=> currentThreshold <= edge.similarity
                     /\ \A e \in drawn : e.similarity = edge.similarity


(***************************************************************************)
(* Force layout                                                            *)
(***************************************************************************)
\* forces[n] after the step minus forces[n] before it
ForceAdded(n) == VSub(sim'.forces[n], sim.forces[n])

\* a . b
Dot(a, b) == a.x * b.x + a.y * b.y

\* from node a to node b
Offset(a, b) == [x |-> sim.nodes[b].x - sim.nodes[a].x, y |-> sim.nodes[b].y - sim.nodes[a].y]

\* C31: every pair step of the simulation adds a force to one node of the pair
\* and the opposite force to the other, and to no third node; the repulsive
\* force points each node away from the other; the spring force of an edge
\* points its endpoints toward each other when their distance exceeds k = 2
\* and away from each other when it is below k.
C31_ForcesEqualAndOpposite ==
    [][/\ (sim.pc = "repulse" /\ sim'.pc = "repulse" /\ sim' # sim) =>
            /\ \A n \in 1..Len(sim.nodes) \ {sim.i, sim.j} : ForceAdded(n) = VZero
            /\ VAdd(ForceAdded(sim.i), ForceAdded(sim.j)) = VZero
            /\ Dot(ForceAdded(sim.j), Offset(sim.i, sim.j)) > 0
            /\ Dot(ForceAdded(sim.i), Offset(sim.j, sim.i)) > 0
       /\ (sim.pc = "spring" /\ sim'.step = "spring" /\ sim' # sim) =>
            LET i1 == FindKey(sim.nodes, sim.edges[sim.e].source)
                i2 == FindKey(sim.nodes, sim.edges[sim.e].target)
                far == Dot(Offset(i1, i2), Offset(i1, i2)) > (k * PosScale) * (k * PosScale)
                near == Dot(Offset(i1, i2), Offset(i1, i2)) < (k * PosScale) * (k * PosScale)
            IN  i1 # i2 =>
                  /\ \A n \in 1..Len(sim.nodes) \ {i1, i2} : ForceAdded(n) = VZero
                  /\ VAdd(ForceAdded(i1), ForceAdded(i2)) = VZero
                  /\ far => /\ Dot(ForceAdded(i1), Offset(i1, i2)) > 0
                            /\ Dot(ForceAdded(i2), Offset(i2, i1)) > 0
                  /\ near => /\ Dot(ForceAdded(i1), Offset(i1, i2)) < 0
                             /\ Dot(ForceAdded(i2), Offset(i2, i1)) < 0
      ]_vars


\* C32: the dist that divides in a pair step or an edge step of
\* applyForceLayout is never below 0.1, and the repulsive force pushes two
\* nodes at one position apart.
C32_DistFlooredAtTenth ==
    [][(sim' # sim /\ sim'.step \in {"repulse", "spring"}) =>
          /\ sim'.dist * 10 >= PosScale
          /\ (sim'.step = "repulse" /\ Offset(sim.i, sim.j) = VZero)
                => (ForceAdded(sim.i) # VZero /\ ForceAdded(sim.j) # VZero)]_vars


(***************************************************************************)
(* The position cache and the rendered graph                               *)
(***************************************************************************)
\* C33: whenever the position cache is non-null, its keys are the node ids of
\* the graph currently rendered, and its positions are those a simulation run
\* on that graph computed for the rendered nodes.
C33_CacheOfRenderedGraph ==
    (calculatedPositions # Null /\ currentGraph # Null) =>
        /\ DOMAIN calculatedPositions =
              { currentGraph.nodes[i].originalId : i \in 1..Len(currentGraph.nodes) }
        /\ hist[currentGraph.gen].layouts >= 1
        /\ \A i \in 1..Len(currentGraph.nodes) :
              LET n == currentGraph.nodes[i]
              IN  n.originalId \in DOMAIN calculatedPositions =>
                     calculatedPositions[n.originalId] = [x |-> n.x, y |-> n.y]


(***************************************************************************)
(* Concept hierarchy requests                                              *)
(***************************************************************************)
\* a click on #generate-concept-graph is handled
ConceptClick == lastOp'.op \in {"generateConcept", "conceptRefused"} /\ concept' # concept

\* C34: whenever a cluster is selected and the current topic has a search id,
\* a click on the generate button of the cluster view issues a concept
\* hierarchy request for that cluster, cluster 0 included.
C34_RequestForSelectedCluster ==
    [][(/\ ConceptClick
        /\ currentClusterId # << >>
        /\ searchIds[currentTopic] # NullStr)
          => \E r \in concept'.pending \ concept.pending :
                /\ r.clusterId = currentClusterId[1]
                /\ r.searchId = searchIds[currentTopic]]_vars


\* C35: every summary request and every concept hierarchy request carries the
\* selected cluster's id together with the search id of the topic that was
\* current when that cluster was clicked.
C35_RequestOfSelectionTopic ==
    [][/\ \A r \in summaryReqs' \ summaryReqs :
             /\ r.clusterId = currentClusterId'[1]
             /\ r.searchId = searchIds[clusterView'.topic]
       /\ \A r \in concept'.pending \ concept.pending :
             /\ r.clusterId = currentClusterId[1]
             /\ r.searchId = searchIds[clusterView.topic]]_vars


\* C36: a rendered concept hierarchy stays displayed until the user clicks a
\* graph node, closes the view or generates again: no other step, the
\* completion of a summary request included, hides the container or removes
\* the tree's nodes from the canvas.
C36_HierarchyStaysDisplayed ==
    [][(/\ concept.canvas.kind = "tree"
        /\ concept.container = "block"
        /\ lastOp'.op \notin {"click", "close", "generateConcept",
                              "conceptRendered", "conceptFailed"})
          => (/\ concept'.container = "block"
              /\ concept'.canvas.kind = "tree"
              /\ ConceptIds(concept'.canvas.nodes) = ConceptIds(concept.canvas.nodes))]_vars

\* C37: isPathHighlighted is true exactly when the canvas holds a tree with
\* nodes or links classified highlighted or dimmed; a tree that was just
\* rendered is therefore in the unhighlighted state.
C37_FlagMatchesCanvas ==
    /\ concept.isPathHighlighted <=>
          (concept.canvas.kind = "tree" /\ ~Unclassified(concept.canvas))
    /\ (lastOp.op = "conceptRendered" /\ concept.canvas.kind = "tree")
          => ~concept.isPathHighlighted


(***************************************************************************)
(* HackerNewsAnalysisApp: compare, search, generate; analyzeComplete        *)
(***************************************************************************)
\* what the application never writes
appOnly == <<impl, localStorage, currentTopic, graphData, searchIds, currentGraph,
             summaryCache, currentThreshold, currentGraphData, calculatedPositions,
             currentClusterId, dom, clusterView, fetches, numFetches, userEvents,
             timers, summaryReqs, numSummaryCalls, concept, hist, lastOp, sim>>

\* the outcomes of a search request: a response with stories, a response
\* without stories, a rejected request
SearchOutcomes == {"stories", "empty", "failed"}

\* the response of searchHackerNews for a section
SearchResponse(section, outcome) ==
    [search_id |-> TopicSearchId(section), stories |-> outcome = "stories"]

\* updateTopicDisplay(): generateBtn.disabled follows searchData
UpdateTopicDisplay(a) ==
    [a EXCEPT !.generateBtn.disabled =
                  ~(a.searchData["top"] # Null /\ a.searchData["bottom"] # Null)]

\* switchPage(page) on the application a
SwitchPageOf(a, page) ==
    IF page = "cluster"
    THEN UpdateTopicDisplay([a EXCEPT !.currentPage = page])
    ELSE [a EXCEPT !.currentPage = page,
                   !.vizSection = IF a.impl = "part_000" THEN FALSE ELSE @]

\* a click on a navigation tab
SwitchPage(page) ==
    /\ app' = SwitchPageOf(app, page)
    /\ UNCHANGED <<appOnly, clustersGenerated, vizVars>>

\* clicks on the compare and on the generate button so far
AppEvents == Len(app.compares) + Len(app.generates)

\* handleCompare() with a query in both inputs, up to its await
HandleCompare ==
    /\ app.currentPage = "main"
    /\ ~app.compareBtn.disabled
    /\ app' = [app EXCEPT
                 !.compareBtn.disabled = TRUE,
                 !.compares = Append(@, [fulfilled |-> {}, settled |-> FALSE]),
                 !.searches = @ \cup {[section |-> t, compare |-> Len(app.compares) + 1]
                                        : t \in Topics}]
    /\ UNCHANGED <<appOnly, clustersGenerated, vizVars>>

\* handleSearch(section) from its await on: what it leaves in searchData
SearchStored(a, section, outcome) ==
    IF a.impl = "app.js"
    THEN UpdateTopicDisplay(
           [a EXCEPT !.searchData[section] =
                        IF outcome = "stories" THEN SearchResponse(section, outcome)
                        ELSE Null])
    ELSE [a EXCEPT !.searchData[section] =
                      IF outcome = "failed" THEN @ ELSE SearchResponse(section, outcome)]

\* Promise.all of handleCompare r.compare once the search r has settled:
\* the first rejection runs the catch block, the second fulfilment hides
\* the compare button; a settled Promise.all ignores what follows
CompareSettles(a, r, outcome) ==
    LET c == a.compares[r.compare]
        done == c.fulfilled \cup {r.section}
    IN  IF c.settled THEN a
        ELSE IF outcome # "stories"
        THEN [a EXCEPT !.compares[r.compare] = [fulfilled |-> {}, settled |-> TRUE],
                       !.compareBtn.disabled = FALSE]
        ELSE IF done = Topics
        THEN [a EXCEPT !.compares[r.compare] = [fulfilled |-> done, settled |-> TRUE],
                       !.compareBtn.hidden = TRUE]
        ELSE [a EXCEPT !.compares[r.compare].fulfilled = done]

\* the search request r settles
SearchSettled(r, outcome) ==
    /\ r \in app.searches
    /\ app' = [CompareSettles(SearchStored(app, r.section, outcome), r, outcome)
                 EXCEPT !.searches = app.searches \ {r}]
    /\ UNCHANGED <<appOnly, clustersGenerated, vizVars>>


\* api.analyzeComplete(searchId) up to its first await: the embedding
\* request is sent
AnalyzeComplete(searchId) ==
    [searchId |-> searchId, stage |-> "embed", embedded |-> FALSE,
     clusterSent |-> FALSE, cluster |-> "none", data |-> Null]

\* analyzeComplete once the embedding request has settled: a rejected
\* request throws out of the function (keeps the cluster request unsent)
EmbeddingsSendAnyway(an, ok) ==
    [an EXCEPT !.stage = "cluster", !.embedded = ok, !.clusterSent = TRUE]

EmbeddingsOutcome(an, ok) ==
    IF ok
    THEN [an EXCEPT !.stage = "cluster", !.embedded = TRUE, !.clusterSent = TRUE]
    ELSE [an EXCEPT !.stage = "failed"]

\* the outcomes of the cluster request: a response with success, a response
\* with success = false, a rejected request
ClusterOutcomes == {"data", "refused", "failed"}

\* analyzeComplete once the cluster request has settled
ClusterOutcome(an, outcome, data) ==
    IF outcome = "data"
    THEN [an EXCEPT !.stage = "data", !.cluster = outcome, !.data = data]
    ELSE [an EXCEPT !.stage = "failed", !.cluster = outcome]

\* the finally block of handleGenerate
GenerateFinallyButton(a) ==
    [a EXCEPT !.generateBtn.disabled = FALSE]

GenerateFinally(a) ==
    [a EXCEPT !.generateBtn.disabled = FALSE, !.loading = FALSE]

\* the topics whose visualization handleGenerate creates after its await:
\* reading search_id of a searchData that is null by now throws
CreatedTopics(a) ==
    IF a.searchData["top"] = Null THEN {}
    ELSE IF a.searchData["bottom"] = Null THEN {"top"}
    ELSE Topics

\* handleGenerate g after both analyses are fulfilled
GenerateContinues(a, g) ==
    LET created == CreatedTopics(a)
        complete == created = Topics
        stored == complete /\ a.impl = "app.js"
    IN  GenerateFinally(
          [a EXCEPT !.generates[g].outcome = IF complete THEN "done" ELSE "error",
                    !.generates[g].created = created,
                    !.generates[g].flagged = stored,
                    !.vizSection = @ \/ created # {},
                    !.generateBtn.hidden = @ \/ stored])

\* Promise.all of handleGenerate g once its analysis of topic has settled
GenerateSettles(a, g, topic) ==
    LET gen == a.generates[g]
    IN  IF gen.outcome # "pending" THEN a
        ELSE IF gen.an[topic].stage = "failed"
        THEN GenerateFinally([a EXCEPT !.generates[g].outcome = "failed"])
        ELSE IF \A t \in Topics : gen.an[t].stage = "data"
        THEN GenerateContinues(a, g)
        ELSE a

\* the visualizations after handleGenerate g has continued from the state a
VizCreated(a, g, v) ==
    LET created == CreatedTopics(a)
        top == IF "top" \in created
               THEN CreateClusterVisualization(v, a.generates[g].an["top"].data,
                                               a.searchData["top"].search_id, "top")
               ELSE v
    IN  IF "bottom" \in created
        THEN CreateClusterVisualization(top, a.generates[g].an["bottom"].data,
                                        a.searchData["bottom"].search_id, "bottom")
        ELSE top

\* a click on the generate button: handleGenerate up to its await
HandleGenerateClick ==
    /\ app.currentPage = "cluster"
    /\ ~app.generateBtn.disabled /\ ~app.generateBtn.hidden
    /\ app' = IF app.searchData["top"] = Null \/ app.searchData["bottom"] = Null
              THEN SwitchPageOf(app, "main")
              ELSE [app EXCEPT
                      !.generateBtn.disabled = TRUE,
                      !.loading = TRUE,
                      !.generates = Append(@,
                          [an |-> [t \in Topics |->
                                     AnalyzeComplete(app.searchData[t].search_id)],
                           outcome |-> "pending", created |-> {}, flagged |-> FALSE])]
    /\ UNCHANGED <<appOnly, clustersGenerated, vizVars>>

\* the embedding request of the analysis (g, topic) settles
EmbeddingsSettled(g, topic, ok) ==
    /\ g \in 1..Len(app.generates)
    /\ app.generates[g].an[topic].stage = "embed"
    /\ LET a == [app EXCEPT !.generates[g].an[topic] = EmbeddingsOutcome(@, ok)]
       IN  app' = GenerateSettles(a, g, topic)
    /\ UNCHANGED <<appOnly, clustersGenerated, vizVars>>

\* the visualization data the Data Service returns for a topic's stories
TopicData(topic) == IF topic = "top" THEN DataP ELSE DataR

\* the cluster request of the analysis (g, topic) settles
ClusterSettled(g, topic, outcome) ==
    /\ g \in 1..Len(app.generates)
    /\ app.generates[g].an[topic].stage = "cluster"
    /\ LET a == [app EXCEPT !.generates[g].an[topic] =
                                 ClusterOutcome(@, outcome, TopicData(topic))]
           b == GenerateSettles(a, g, topic)
           continued == app.generates[g].outcome = "pending"
                        /\ b.generates[g].outcome \in {"done", "error"}
       IN  /\ app' = b
           /\ clustersGenerated' = (clustersGenerated \/ b.generates[g].flagged)
           /\ viz' = IF continued THEN VizCreated(a, g, viz) ELSE viz
           /\ vizPage' = IF continued /\ CreatedTopics(a) # {}
                         THEN [VizEvent("create", << >>, << >>)
                                 EXCEPT !.details.shown = FALSE]
                         ELSE vizPage
    /\ UNCHANGED appOnly

\* The application from its start: topics compared, clusters generated.
InitApp ==
    /\ InitWith({})
    /\ impl = "part_000"
    /\ ~clustersGenerated
    /\ VizConstructed
    /\ sim = Null
    /\ \E appImpl \in AppImpls : app = AppConstructed(appImpl)

\* the steps of the application with at most maxEvents clicks on its two
\* buttons
AppStep(maxEvents) ==
    \/ AppEvents < maxEvents /\ HandleCompare
    \/ \E r \in app.searches : \E outcome \in SearchOutcomes : SearchSettled(r, outcome)
    \/ \E page \in {"main", "cluster"} : SwitchPage(page)
    \/ AppEvents < maxEvents /\ HandleGenerateClick
    \/ \E g \in 1..maxEvents : \E t \in Topics : \E ok \in BOOLEAN :
          EmbeddingsSettled(g, t, ok)
    \/ \E g \in 1..maxEvents : \E t \in Topics : \E outcome \in ClusterOutcomes :
          ClusterSettled(g, t, outcome)

NextApp == AppStep(MaxAppEvents)

SpecApp == InitApp /\ [][NextApp]_vars

\* A short session of the application: a comparison and the generation
\* that follows it.
NextSession == AppStep(MaxSessionEvents)

SpecSession == InitApp /\ [][NextSession]_vars


(***************************************************************************)
(* Claims about the application                                             *)
(***************************************************************************)
\* C38: in app.js a search that completes leaves searchData[section] non-null
\* exactly when it returned stories, nothing else writes searchData, and
\* the generate button is enabled only while both sections hold a validated
\* result.
C38_GenerateNeedsValidatedData ==
    [][app.impl = "app.js" =>
         /\ \A r \in app.searches : \A outcome \in SearchOutcomes :
               SearchSettled(r, outcome) =>
                   (app'.searchData[r.section] # Null <=> outcome = "stories")
         /\ app'.searches = app.searches => app'.searchData = app.searchData
         /\ \A t \in Topics :
               app'.searchData[t] # Null => app'.searchData[t].stories
         /\ ~app'.generateBtn.disabled =>
               \A t \in Topics : app'.searchData[t] # Null]_vars


\* handleGenerate g leaves its await in this step
GenerateEnds(g) ==
    /\ g \in 1..Len(app.generates)
    /\ app.generates[g].outcome = "pending"
    /\ app'.generates[g].outcome # "pending"

\* both analyses of handleGenerate g have returned visualization data
BothAnalysed(a, g) ==
    \A t \in Topics : a.generates[g].an[t].stage = "data"

\* C39: handleGenerate sends its analysis requests only when both sections
\* have search data, for their search ids; clustersGenerated is set and
\* visualizations are created only in the step in which a handleGenerate
\* whose two analyses succeeded continues; a handleGenerate with a failed
\* analysis sets no flag and creates no visualization; and whenever
\* handleGenerate ends, the loading indicator is hidden and the generate
\* button enabled.
C39_GenerateAfterBothAnalyses ==
    [][/\ \A g \in 1..Len(app'.generates) :
             g > Len(app.generates) =>
                 \A t \in Topics :
                     /\ app.searchData[t] # Null
                     /\ app'.generates[g].an[t].searchId = app.searchData[t].search_id
       /\ (clustersGenerated' # clustersGenerated \/ viz' # viz) =>
             \E g \in 1..Len(app.generates) :
                 GenerateEnds(g) /\ BothAnalysed(app', g)
       /\ \A g \in 1..Len(app'.generates) :
             (\E t \in Topics : app'.generates[g].an[t].stage = "failed") =>
                 /\ app'.generates[g].created = {}
                 /\ ~app'.generates[g].flagged
                 /\ GenerateEnds(g) => clustersGenerated' = clustersGenerated /\ viz' = viz
       /\ \A g \in 1..Len(app.generates) :
             GenerateEnds(g) => ~app'.loading /\ ~app'.generateBtn.disabled
       /\ (HandleGenerateClick /\ app'.generates = app.generates) =>
             ~app'.loading /\ ~app'.generateBtn.disabled]_vars

\* a handleGenerate of app.js has ended after two successful analyses: flag
\* set, both visualizations created, loading hidden, button enabled
C39_Witness ==
    /\ app.impl = "app.js"
    /\ clustersGenerated
    /\ \E g \in 1..Len(app.generates) :
          /\ app.generates[g].outcome = "done"
          /\ app.generates[g].created = Topics
    /\ \A t \in Topics : viz.visualizations[t] # Null
    /\ ~app.loading /\ ~app.generateBtn.disabled


\* C40: analyzeComplete sends the cluster request only in the step in which
\* its own embedding request is fulfilled; after a rejected embedding
\* request it has failed without a cluster request; a cluster response with
\* success = false makes it fail without visualization data, and it returns
\* data only from a cluster response with success.
C40_ClusterAfterEmbedding ==
    [][\A g \in 1..Len(app'.generates) : \A t \in Topics :
          LET an == app'.generates[g].an[t]
              sentBefore == g <= Len(app.generates)
                            /\ app.generates[g].an[t].clusterSent
          IN  /\ an.clusterSent => an.embedded
              /\ (an.clusterSent /\ ~sentBefore) =>
                    /\ g <= Len(app.generates)
                    /\ app.generates[g].an[t].stage = "embed"
                    /\ an.searchId = app.generates[g].an[t].searchId
                    /\ an.stage = "cluster"
              /\ (an.stage = "failed" /\ ~an.embedded) =>
                    ~an.clusterSent /\ an.cluster = "none"
              /\ an.cluster = "refused" => an.stage = "failed" /\ an.data = Null
              /\ an.stage = "data" <=> an.cluster = "data"
              /\ an.data # Null <=> an.stage = "data"]_vars

\* one handleGenerate whose top analysis got a cluster response with
\* success = false after its embedding request, and whose bottom analysis
\* ended at a rejected embedding request
C40_Witness ==
    \E g \in 1..Len(app.generates) :
        /\ app.generates[g].an["top"].embedded
        /\ app.generates[g].an["top"].clusterSent
        /\ app.generates[g].an["top"].cluster = "refused"
        /\ app.generates[g].an["top"].stage = "failed"
        /\ app.generates[g].an["bottom"].stage = "failed"
        /\ ~app.generates[g].an["bottom"].clusterSent

====
